---- MODULE Spec2Model ----
(***************************************************************************)
(* Model of the prediction pipeline of the cricket analytics engine:       *)
(*   06_train_models.py  main                 (ensemble weight tuning)     *)
(*   08_predict.py       load_models, predict_squad, print_full_report     *)
(*   07_optimizer.py     add_confidence_intervals, select_xi, demo squad   *)
(*                                                                         *)
(* Fixed-point arithmetic: a blend weight is an integer number of          *)
(* 1/WScale, so a predicted score is an integer number of 1/WScale score   *)
(* points, and a confidence bound an integer number of 1/(100*WScale).     *)
(***************************************************************************)
EXTENDS Integers, Sequences, FiniteSets, TLC

\* ------------------------------------------------------------------ bounds
\* Largest squad the command-line pipeline is run on.
MaxPool == 3
\* Resolution of the blend weight: w ranges over 0/WScale .. WScale/WScale.
WScale == 2

\* ------------------------------------------------------- program constants
\* np.clip(ens_scores, 0, 100)
ClipLo == 0
ClipHi == 100
\* add_confidence_intervals(..., uncertainty_pct = 0.15), in percent
UncertaintyPct == 15
PctScale == 100

VARIABLES
    mode,          \* "cli" (08_predict.main) or "demo" (07_optimizer __main__)
    pc,            \* position in the pipeline
    squad_names,   \* ctx["squad"]
    overseas,      \* ctx["overseas"], a set of names
    meta,          \* ensemble_weights.json, <<>> until written
    xgb_w, rf_w,   \* weights loaded by load_models
    candidates,    \* list[PlayerCandidate]
    constraints,   \* the TeamConstraints select_xi was called with
    prob_built,    \* the LpProblem of select_xi has been built
    solver,        \* the PULP_CBC_CMD object, <<>> until created
    lp_status,     \* pulp.LpStatus[prob.status]
    x,             \* indices i with pulp.value(x[i]) == 1
    selection,     \* the TeamSelection returned by select_xi
    report         \* names in the order print_full_report / display_xi prints

\* 04_feature_engineering.compute_decay_weight, one call
VARIABLES
    decay_pc,        \* "idle", "call" (arguments bound) or "done" (returned)
    dates,           \* the dates argument, day numbers
    reference_date,  \* the reference_date argument, a day number
    half_life_days,  \* the half_life_days argument
    decay_w          \* the returned weights, <<>> until the call returns

decayVars == <<decay_pc, dates, reference_date, half_life_days, decay_w>>

\* 04_feature_engineering.main: the batting and bowling aggregators
VARIABLES
    agg_pc,          \* "idle", "bat", "bowl" or "done"
    agg_runs,        \* completed runs of main on this log
    deliveries,      \* deliveries_clean.csv, a set of delivery rows
    bat_profiles,    \* player_batting_profiles.csv, a list of rows
    bowl_profiles    \* player_bowling_profiles.csv, a list of rows

aggVars == <<agg_pc, agg_runs, deliveries, bat_profiles, bowl_profiles>>

\* 04 build_impact_scores, 05 main (time_split) and 06 main (evaluation)
VARIABLES
    split_pc,        \* "idle", "impacts", "matrix", "train", "trained", "error"
    merged,          \* build_impact_scores: merged before it is sorted
    impacts,         \* player_impact_scores.csv
    cutoff5,         \* time_split: 5 * cutoff (the quantile falls on fifths)
    train,           \* train.parquet
    test,            \* test.parquet
    evals,           \* every (rows fitted on, rows evaluated on) of 06 main
    tuned            \* rows whose labels find_best_ensemble_weight is given

splitVars == <<split_pc, merged, impacts, cutoff5, train, test, evals,
               tuned>>

\* feature vectors: 05 encode_and_impute, 06 get_Xy, 08 predict_squad
VARIABLES
    feat_pc,         \* "idle", "matrix", "train", "predict" or "predicted"
    matrix,          \* the feature matrix of 05 main, a list of rows
    matrix_cols,     \* the feature columns the matrix has
    train_df,        \* train.parquet
    X_train,         \* X of get_Xy(train_df), one vector per row
    feature_cols,    \* "feature_cols" of ensemble_weights.json
    ctx,             \* the player and match context of the prediction
    assembled,       \* build_player_feature_row: row before the fill loop
    row,             \* build_player_feature_row: the row returned
    X                \* predict_squad: the vector passed to the regressors

featVars == <<feat_pc, matrix, matrix_cols, train_df, X_train, feature_cols,
              ctx, assembled, row, X>>

\* 05 build_matrix (role join), encode_and_impute, and the
\* prediction-time encodings of 08 build_player_feature_row
VARIABLES
    enc_pc,          \* "idle", "profiles", "joined", "encoded", "predicted"
    batting,         \* player_batting_profiles.csv: (player, format) keys
    bowling,         \* player_bowling_profiles.csv: rows with total_innings
    role_table,      \* the frame assign_roles returns
    base,            \* the matrix rows of build_matrix
    encoders,        \* column -> LabelEncoder.classes_
    asked,           \* index of the matrix row a prediction is asked for
    inferred         \* role and codes build_player_feature_row assigns

encVars == <<enc_pc, batting, bowling, role_table, base, encoders, asked,
             inferred>>

\* 04 build_batting_profiles / build_bowling_profiles on one (player,
\* format) group: the form windows and every ratio of the profile row
VARIABLES
    form_pc,         \* "idle", "group" or "done"
    form_kind,       \* "bat" or "bowl": which aggregator runs
    form_rows,       \* the innings rows of the group, in groupby order
    form_sorted,     \* grp_df after sort_values("date")
    form_profile     \* the windows and ratios of the row, <<>> if skipped

formVars == <<form_pc, form_kind, form_rows, form_sorted, form_profile>>

\* 08 generate_justification, one call
VARIABLES
    just_pc,         \* "idle", "call" or "done"
    just_player,     \* the PlayerCandidate argument: role and context_stats
    just_format,     \* the match_format argument
    reasons,         \* the reasons list when the sentence is built
    justification    \* the reasons the returned sentence renders, in order

justVars == <<just_pc, just_player, just_format, reasons, justification>>

\* 04 build_impact_scores on a delivery log
VARIABLES
    imp_pc,          \* "idle", "log", "done" or "error"
    imp_log,         \* deliveries_clean.csv, a set of delivery rows
    imp_scores       \* the frame written to player_impact_scores.csv

impVars == <<imp_pc, imp_log, imp_scores>>

\* predict_engine.predict, one call
VARIABLES
    eng_pc,          \* "idle", "call" or "done"
    eng_squad,       \* the squad argument, a list of names
    eng_scores,      \* which table of ensemble scores the models give
    eng_selection,   \* the TeamSelection select_xi returned
    eng_result       \* the returned dict, <<>> until predict returns

engVars == <<eng_pc, eng_squad, eng_scores, eng_selection, eng_result>>

\* backend: the sessions table, login, logout and require_auth
VARIABLES
    ses_pc,          \* "idle" or "serving"
    sessions,        \* the rows of the sessions table
    clock,           \* datetime.utcnow(), in hours
    issued,          \* tokens create_session has returned: 1..issued
    revoked,         \* tokens a logout request has deleted
    lookup,          \* the get_session call in flight, <<>> if none
    answer           \* what the last require_auth call ended with

sesVars == <<ses_pc, sessions, clock, issued, revoked, lookup, answer>>

\* the state of every component other than the prediction pipeline
auxVars == <<decayVars, aggVars, splitVars, featVars,
            encVars,
            formVars,
            justVars,
            impVars,
            engVars,
            sesVars>>

vars == <<mode, pc, squad_names, overseas, meta, xgb_w, rf_w, candidates,
          constraints, prob_built, solver, lp_status, x, selection, report,
          auxVars>>

\* compute_decay_weight is not being called
DecayIdle ==
    /\ decay_pc = "idle"
    /\ dates = <<>>
    /\ reference_date = 0
    /\ half_life_days = 1
    /\ decay_w = <<>>

\* the aggregators are not running
AggIdle ==
    /\ agg_pc = "idle"
    /\ agg_runs = 0
    /\ deliveries = {}
    /\ bat_profiles = <<>>
    /\ bowl_profiles = <<>>

\* no feature matrix is being built or trained on
SplitIdle ==
    /\ split_pc = "idle"
    /\ merged = <<>>
    /\ impacts = <<>>
    /\ cutoff5 = 0
    /\ train = <<>>
    /\ test = <<>>
    /\ evals = <<>>
    /\ tuned = <<>>

\* no feature vector is being built
FeatIdle ==
    /\ feat_pc = "idle"
    /\ matrix = <<>>
    /\ matrix_cols = {}
    /\ train_df = <<>>
    /\ X_train = <<>>
    /\ feature_cols = <<>>
    /\ ctx = <<>>
    /\ assembled = <<>>
    /\ row = <<>>
    /\ X = <<>>

\* no categorical column is being encoded
EncIdle ==
    /\ enc_pc = "idle"
    /\ batting = {}
    /\ bowling = {}
    /\ role_table = {}
    /\ base = <<>>
    /\ encoders = <<>>
    /\ asked = 0
    /\ inferred = <<>>

\* no group is being aggregated
FormIdle ==
    /\ form_pc = "idle"
    /\ form_kind = "-"
    /\ form_rows = <<>>
    /\ form_sorted = <<>>
    /\ form_profile = <<>>

\* generate_justification is not being called
JustIdle ==
    /\ just_pc = "idle"
    /\ just_player = <<>>
    /\ just_format = "-"
    /\ reasons = <<>>
    /\ justification = <<>>

\* no impact score is being computed
ImpIdle ==
    /\ imp_pc = "idle"
    /\ imp_log = {}
    /\ imp_scores = <<>>

\* predict_engine.predict is not being called
EngIdle ==
    /\ eng_pc = "idle"
    /\ eng_squad = <<>>
    /\ eng_scores = 0
    /\ eng_selection = <<>>
    /\ eng_result = <<>>

\* the backend is not serving
SesIdle ==
    /\ ses_pc = "idle"
    /\ sessions = {}
    /\ clock = 0
    /\ issued = 0
    /\ revoked = {}
    /\ lookup = <<>>
    /\ answer = <<>>

AuxIdle == DecayIdle /\ AggIdle /\ SplitIdle /\ FeatIdle
           /\ EncIdle
           /\ FormIdle
           /\ JustIdle
           /\ ImpIdle
           /\ EngIdle
           /\ SesIdle

\* --------------------------------------------------------------- helpers
Max(a, b) == IF a >= b THEN a ELSE b

RECURSIVE SumScores(_)
\* sum(c.predicted_score for c in selected)
SumScores(seq) ==
    IF seq = <<>> THEN 0
    ELSE Head(seq).predicted_score + SumScores(Tail(seq))

\* sum(1 for c in selected if c.role in roles)
CountRole(seq, roles) ==
    Cardinality({i \in 1..Len(seq) : seq[i].role \in roles})

\* The members of cands at the indices S, in list order (a list
\* comprehension over enumerate(candidates)).
Pick(cands, S) ==
    [k \in 1..Cardinality(S) |->
        cands[CHOOSE i \in S : Cardinality({j \in S : j < i}) = k - 1]]

\* ------------------------------------------------------- data structures
Roles == {"BAT", "BOWL", "ALL", "WK"}

\* dataclass PlayerCandidate; confidence_lo/hi default to 0.0 and
\* context_stats to an empty dict (<<>>); a feature row r is <<r>>.
PlayerCandidate(name, role, score, is_overseas, stats) ==
    [name |-> name, role |-> role, predicted_score |-> score,
     is_overseas |-> is_overseas, confidence_lo |-> 0, confidence_hi |-> 0,
     context_stats |-> stats]

\* dataclass TeamConstraints
TeamConstraints(size, bat, bowl, allr, wkmin, wkmax, ovs) ==
    [team_size |-> size, min_batters |-> bat, min_bowlers |-> bowl,
     min_allrounders |-> allr, min_wk |-> wkmin, max_wk |-> wkmax,
     max_overseas |-> ovs]

\* TeamConstraints(): the defaults of the dataclass
DefaultConstraints == TeamConstraints(11, 5, 4, 2, 1, 2, 4)

\* dataclass TeamSelection
TeamSelection(players, total, nb, nbowl, nallr, nwk, status) ==
    [players |-> players, total_score |-> total, n_batters |-> nb,
     n_bowlers |-> nbowl, n_allrounders |-> nallr, n_wk |-> nwk,
     status |-> status]

NoSelection == TeamSelection(<<>>, 0, 0, 0, 0, 0, "-")


\* -------------------------------------------------- ensemble predictor
\* The feature rows build_player_feature_row can return, by id.
Rows == {0, 1}

\* xgb_pipe.predict / rf_pipe.predict: the two fitted regressors are fixed
\* functions of the feature row. Stand-in tables, in score points; a
\* regressor's output is not confined to [0, 100].
XgbPredict(r) == IF r = 0 THEN -20 ELSE 180
RfPredict(r) == IF r = 0 THEN 30 ELSE 50

\* json.dump({"xgb": xgb_w, "rf": 1 - xgb_w, ...}): the stored RF weight
RfWeight_NotComplement(w) == w
RfWeight(w) == WScale - w

\* xgb_w * xgb_scores + rf_w * rf_scores
Blend(xw, rw, a, b) == xw * a + rw * b

\* np.clip(v, lo, hi)
Clip_NoUpper(v, lo, hi) == IF v < lo THEN lo ELSE v
Clip(v, lo, hi) == IF v < lo THEN lo ELSE IF v > hi THEN hi ELSE v

\* ens_scores[i] for the feature row r, in 1/WScale score points
EnsScore(xw, rw, r) ==
    Clip(Blend(xw, rw, XgbPredict(r), RfPredict(r)),
         ClipLo * WScale, ClipHi * WScale)

\* ------------------------------------------------ confidence intervals
\* One iteration of add_confidence_intervals: margin = score * pct,
\* lo = max(score - margin, 0), hi = score + margin (1/(100*WScale) points).
WithInterval_Rescored(c) ==
    [c EXCEPT !.confidence_lo = c.predicted_score * (PctScale - UncertaintyPct),
              !.confidence_hi = c.predicted_score * (PctScale + UncertaintyPct),
              !.predicted_score = c.predicted_score + 1]
WithInterval(c) ==
    LET margin == c.predicted_score * UncertaintyPct
    IN [c EXCEPT !.confidence_lo = Max(c.predicted_score * PctScale - margin, 0),
                 !.confidence_hi = c.predicted_score * PctScale + margin]

\* ------------------------------------------------------------ demo squad
\* _build_demo_squad: (name, role, score, overseas)
DemoRows ==
    << <<"RG Sharma", "BAT", 78>>, <<"S Dhawan", "BAT", 65>>,
       <<"V Kohli", "BAT", 91>>, <<"SK Raina", "ALL", 72>>,
       <<"MS Dhoni", "WK", 80>>, <<"HH Pandya", "ALL", 74>>,
       <<"RA Jadeja", "ALL", 69>>, <<"R Ashwin", "BOWL", 58>>,
       <<"B Kumar", "BOWL", 61>>, <<"JJ Bumrah", "BOWL", 85>>,
       <<"Yuzvendra Chahal", "BOWL", 55>>, <<"KL Rahul", "WK", 70>>,
       <<"SN Thakur", "ALL", 50>> >>

DemoSquad ==
    [i \in 1..Len(DemoRows) |->
        PlayerCandidate(DemoRows[i][1], DemoRows[i][2],
                        DemoRows[i][3] * WScale, FALSE, <<>>)]


\* --------------------------------------------------------- ILP optimizer
\* if n < constraints.team_size: return TeamSelection([], 0, ..., "Infeasible")
TooSmall_OffByOne(n, cons) == n < cons.team_size - 1
TooSmall(n, cons) == n < cons.team_size

\* bat_vars, bowl_vars, allr_vars, wk_vars, overseas_vars: the indices of
\* the decision variables each constraint sums over
BatVars(cands) == {i \in 1..Len(cands) : cands[i].role \in {"BAT", "WK"}}
BowlVars(cands) == {i \in 1..Len(cands) : cands[i].role \in {"BOWL", "ALL"}}
AllrVars(cands) == {i \in 1..Len(cands) : cands[i].role = "ALL"}
WkVars(cands) == {i \in 1..Len(cands) : cands[i].role = "WK"}
OverseasVars(cands) == {i \in 1..Len(cands) : cands[i].is_overseas}

\* The hard constraints added to prob, for the assignment x[i] = 1 iff i \in S
HardConstraints_NoWkCap(cands, cons, S) ==
    /\ Cardinality(S) = cons.team_size
    /\ Cardinality(S \cap BatVars(cands)) >= cons.min_batters
    /\ Cardinality(S \cap BowlVars(cands)) >= cons.min_bowlers
    /\ Cardinality(S \cap AllrVars(cands)) >= cons.min_allrounders
    /\ Cardinality(S \cap WkVars(cands)) >= cons.min_wk
    /\ OverseasVars(cands) # {} =>
           Cardinality(S \cap OverseasVars(cands)) <= cons.max_overseas
HardConstraints_BatOnly(cands, cons, S) ==
    /\ Cardinality(S) = cons.team_size
    /\ Cardinality({i \in S : cands[i].role = "BAT"}) >= cons.min_batters
    /\ Cardinality(S \cap BowlVars(cands)) >= cons.min_bowlers
    /\ Cardinality(S \cap AllrVars(cands)) >= cons.min_allrounders
    /\ Cardinality(S \cap WkVars(cands)) >= cons.min_wk
    /\ Cardinality(S \cap WkVars(cands)) <= cons.max_wk
    /\ OverseasVars(cands) # {} =>
           Cardinality(S \cap OverseasVars(cands)) <= cons.max_overseas
HardConstraints(cands, cons, S) ==
    /\ Cardinality(S) = cons.team_size
    /\ Cardinality(S \cap BatVars(cands)) >= cons.min_batters
    /\ Cardinality(S \cap BowlVars(cands)) >= cons.min_bowlers
    /\ Cardinality(S \cap AllrVars(cands)) >= cons.min_allrounders
    /\ Cardinality(S \cap WkVars(cands)) >= cons.min_wk
    /\ Cardinality(S \cap WkVars(cands)) <= cons.max_wk
    /\ OverseasVars(cands) # {} =>
           Cardinality(S \cap OverseasVars(cands)) <= cons.max_overseas

\* lpSum(c.predicted_score * x[i]) at the assignment S
Objective(cands, S) == SumScores(Pick(cands, S))

\* The 0/1 assignments that satisfy prob's constraints
FeasibleSets(cands, cons) ==
    {S \in SUBSET (1..Len(cands)) : HardConstraints(cands, cons, S)}

\* LpMaximize: S is at least as good as T
Better_Minimize(cands, S, T) == Objective(cands, S) <= Objective(cands, T)
Better(cands, S, T) == Objective(cands, S) >= Objective(cands, T)

\* The assignments CBC may report with status Optimal
OptimalSets(cands, cons) ==
    LET F == FeasibleSets(cands, cons)
    IN {S \in F : \A T \in F : Better(cands, S, T)}

\* The values of pulp.LpStatus that are not a solution
LpFailure == {"Not Solved", "Undefined", "Unbounded"}

\* prob.solve(solver): the (status, assignment) pairs the solve can end
\* with. CBC reports Optimal with an optimal assignment, Infeasible when
\* there is none; the other statuses are a solver that did not finish.
SolverOutcomes(cands, cons) ==
    LET F == FeasibleSets(cands, cons)
    IN {[status |-> "Optimal", x |-> S] : S \in OptimalSets(cands, cons)}
       \cup (IF F = {} THEN {[status |-> "Infeasible", x |-> {}]} ELSE {})
       \cup {[status |-> st, x |-> {}] : st \in LpFailure}

\* status not in ("Optimal", "Feasible")
NeedsFallback(status) == status \notin {"Optimal", "Feasible"}

\* key=lambda c: c.predicted_score, reverse=True: i is ordered before j.
\* sorted() is stable, also under reverse=True.
Before_Ascending(cands, i, j) ==
    \/ cands[i].predicted_score < cands[j].predicted_score
    \/ cands[i].predicted_score = cands[j].predicted_score /\ i < j
Before(cands, i, j) ==
    \/ cands[i].predicted_score > cands[j].predicted_score
    \/ cands[i].predicted_score = cands[j].predicted_score /\ i < j

\* sorted(candidates, key=..., reverse=True)
SortedCands(cands) ==
    [k \in 1..Len(cands) |->
        cands[CHOOSE i \in 1..Len(cands) :
                 Cardinality({j \in 1..Len(cands) : Before(cands, j, i)}) = k - 1]]

\* seq[:k] for 0 <= k
Take_OneShort(seq, k) == SubSeq(seq, 1, IF k - 1 <= Len(seq) THEN k - 1 ELSE Len(seq))
Take(seq, k) == SubSeq(seq, 1, IF k <= Len(seq) THEN k ELSE Len(seq))

\* selected: the greedy fallback or the 1-valued variables
Selected(cands, cons, status, S) ==
    IF NeedsFallback(status)
    THEN Take(SortedCands(cands), cons.team_size)
    ELSE Pick(cands, S)

\* The TeamSelection select_xi builds from selected and status
BuildSelection(selected, status) ==
    TeamSelection(selected,
                  SumScores(selected),
                  CountRole(selected, {"BAT", "WK"}),
                  CountRole(selected, {"BOWL", "ALL"}),
                  CountRole(selected, {"ALL"}),
                  CountRole(selected, {"WK"}),
                  IF NeedsFallback(status) THEN "Suboptimal" ELSE status)

\* ROLE_ORDER = {"WK": 0, "BAT": 1, "ALL": 2, "BOWL": 3}
RoleOrder(role) ==
    CASE role = "WK" -> 0 [] role = "BAT" -> 1 [] role = "ALL" -> 2
      [] role = "BOWL" -> 3 [] OTHER -> 9

\* key=lambda c: (ROLE_ORDER.get(c.role, 9), -c.predicted_score)
DisplayBefore(ps, i, j) ==
    \/ RoleOrder(ps[i].role) < RoleOrder(ps[j].role)
    \/ /\ RoleOrder(ps[i].role) = RoleOrder(ps[j].role)
       /\ \/ ps[i].predicted_score > ps[j].predicted_score
          \/ ps[i].predicted_score = ps[j].predicted_score /\ i < j

\* players = sorted(selection.players, key=...), by name
DisplayOrder(ps) ==
    [k \in 1..Len(ps) |->
        ps[CHOOSE i \in 1..Len(ps) :
              Cardinality({j \in 1..Len(ps) : DisplayBefore(ps, j, i)}) = k - 1].name]


\* ------------------------------------------------------------- inputs
\* load_player_list(team1_file): the squad is a prefix of this list
PlayerList == <<"P1", "P2", "P3", "P4", "P5", "P6">>

\* --overseas / OVERSEAS_PLAYERS
OverseasChoices == {{}, {"P1", "P2"}}

\* The TeamConstraints select_xi is called with. The entry points pass
\* TeamConstraints(); select_xi itself takes any.
ConstraintChoices ==
    { DefaultConstraints,
      TeamConstraints(2, 1, 1, 0, 0, 1, 1),
      TeamConstraints(2, 1, 0, 0, 1, 1, 2),
      TeamConstraints(3, 1, 1, 1, 1, 2, 2) }

\* TeamConstraints a direct caller of select_xi can construct: the dataclass
\* takes any integers. A negative minimum, a negative cap, min_wk above
\* max_wk, and minimums that add up to more than team_size.
MalformedChoices ==
    { TeamConstraints(2, -1, 1, 0, 0, 1, 1),
      TeamConstraints(2, 1, 1, 0, 0, 1, -1),
      TeamConstraints(2, 0, 0, 0, 2, 1, 1),
      TeamConstraints(2, 2, 2, 0, 0, 1, 1) }

ConstraintsFor(m) ==
    IF m = "demo" THEN {DefaultConstraints}
    ELSE IF m = "lib" THEN ConstraintChoices \cup MalformedChoices
    ELSE ConstraintChoices

\* ---------------------------------------------------------------- Init
Init ==
    /\ mode \in {"cli", "demo"}
    /\ \/ /\ mode = "cli"
          /\ pc = "train"
          /\ \E n \in 0..MaxPool : squad_names = SubSeq(PlayerList, 1, n)
          /\ overseas \in OverseasChoices
       \/ /\ mode = "demo"
          /\ pc = "demo"
          /\ squad_names = <<>>
          /\ overseas = {}
    /\ meta = <<>>
    /\ xgb_w = 0
    /\ rf_w = 0
    /\ candidates = <<>>
    /\ constraints = DefaultConstraints
    /\ prob_built = FALSE
    /\ solver = <<>>
    /\ lp_status = "Not Solved"
    /\ x = {}
    /\ selection = NoSelection
    /\ report = <<>>
    /\ AuxIdle

\* -------------------------------------------------------------- actions
\* 06_train_models.main: find_best_ensemble_weight returns w in [0, 1];
\* the weights are written to ensemble_weights.json.
Train ==
    /\ pc = "train"
    /\ \E w \in 0..WScale : meta' = <<[xgb |-> w, rf |-> RfWeight(w)]>>
    /\ pc' = "load"
    /\ UNCHANGED <<mode, squad_names, overseas, xgb_w, rf_w, candidates,
                   constraints, prob_built, solver, lp_status, x, selection,
                   report>>
    /\ UNCHANGED auxVars

\* load_models: exits when an artefact is missing
LoadModels ==
    /\ pc = "load"
    /\ meta # <<>>
    /\ xgb_w' = meta[1].xgb
    /\ rf_w' = meta[1].rf
    /\ pc' = "predict"
    /\ UNCHANGED <<mode, squad_names, overseas, meta, candidates, constraints,
                   prob_built, solver, lp_status, x, selection, report>>
    /\ UNCHANGED auxVars

\* predict_squad: one feature row and role per name, the blended and
\* clipped score, one PlayerCandidate per name in squad order
PredictSquad ==
    /\ pc = "predict"
    /\ \E rows \in [1..Len(squad_names) -> Rows],
          roles \in [1..Len(squad_names) -> Roles] :
          candidates' =
              [i \in 1..Len(squad_names) |->
                  PlayerCandidate(squad_names[i], roles[i],
                                  EnsScore(xgb_w, rf_w, rows[i]),
                                  squad_names[i] \in overseas,
                                  <<rows[i]>>)]
    /\ pc' = "ci"
    /\ UNCHANGED <<mode, squad_names, overseas, meta, xgb_w, rf_w, constraints,
                   prob_built, solver, lp_status, x, selection, report>>
    /\ UNCHANGED auxVars

\* 07_optimizer __main__: squad = _build_demo_squad()
BuildDemoSquad ==
    /\ pc = "demo"
    /\ candidates' = DemoSquad
    /\ pc' = "ci"
    /\ UNCHANGED <<mode, squad_names, overseas, meta, xgb_w, rf_w, constraints,
                   prob_built, solver, lp_status, x, selection, report>>
    /\ UNCHANGED auxVars

\* add_confidence_intervals: sets lo and hi of every candidate in place
AddConfidenceIntervals ==
    /\ pc = "ci"
    /\ candidates' = [i \in 1..Len(candidates) |-> WithInterval(candidates[i])]
    /\ pc' = "select"
    /\ UNCHANGED <<mode, squad_names, overseas, meta, xgb_w, rf_w, constraints,
                   prob_built, solver, lp_status, x, selection, report>>
    /\ UNCHANGED auxVars

\* select_xi, the early return: the squad is smaller than team_size
SelectXiTooSmall ==
    /\ pc = "select"
    /\ \E cons \in ConstraintsFor(mode) :
          /\ TooSmall(Len(candidates), cons)
          /\ constraints' = cons
    /\ selection' = TeamSelection(<<>>, 0, 0, 0, 0, 0, "Infeasible")
    /\ pc' = "report"
    /\ UNCHANGED <<mode, squad_names, overseas, meta, xgb_w, rf_w, candidates,
                   prob_built, solver, lp_status, x, report>>
    /\ UNCHANGED auxVars

\* select_xi past the size check: build prob, solve with
\* PULP_CBC_CMD(msg=int(verbose)) (no time limit is passed), then build
\* the TeamSelection from the solution or from the greedy fallback
SelectXiSolve ==
    /\ pc = "select"
    /\ \E cons \in ConstraintsFor(mode) :
          /\ ~TooSmall(Len(candidates), cons)
          /\ constraints' = cons
          /\ \E out \in SolverOutcomes(candidates, cons) :
                /\ lp_status' = out.status
                /\ x' = out.x
                /\ selection' =
                       BuildSelection(
                           Selected(candidates, cons, out.status, out.x),
                           out.status)
    /\ prob_built' = TRUE
    /\ solver' = <<[msg |-> 0, timeLimit |-> <<>>]>>
    /\ pc' = "report"
    /\ UNCHANGED <<mode, squad_names, overseas, meta, xgb_w, rf_w, candidates,
                   report>>
    /\ UNCHANGED auxVars

\* print_full_report / display_xi: reads the selection and the candidates
PrintFullReport ==
    /\ pc = "report"
    /\ report' = DisplayOrder(selection.players)
    /\ pc' = "end"
    /\ UNCHANGED <<mode, squad_names, overseas, meta, xgb_w, rf_w, candidates,
                   constraints, prob_built, solver, lp_status, x, selection>>
    /\ UNCHANGED auxVars

Next ==
    \/ Train
    \/ LoadModels
    \/ PredictSquad
    \/ BuildDemoSquad
    \/ AddConfidenceIntervals
    \/ SelectXiTooSmall
    \/ SelectXiSolve
    \/ PrintFullReport

Spec == Init /\ [][Next]_vars


\* ============================================================== claims
\* select_xi has returned
Returned == pc \in {"report", "end"}

\* The role counts of a set S of pool indices, as the claims count them
NBat(cands, S) == Cardinality({i \in S : cands[i].role \in {"BAT", "WK"}})
NBowl(cands, S) == Cardinality({i \in S : cands[i].role \in {"BOWL", "ALL"}})
NAllr(cands, S) == Cardinality({i \in S : cands[i].role = "ALL"})
NWk(cands, S) == Cardinality({i \in S : cands[i].role = "WK"})
NOverseas(cands, S) == Cardinality({i \in S : cands[i].is_overseas})

RECURSIVE SetScore(_, _)
\* The sum of the predicted scores of the pool members at the indices S
SetScore(cands, S) ==
    IF S = {} THEN 0
    ELSE LET i == CHOOSE j \in S : TRUE
         IN cands[i].predicted_score + SetScore(cands, S \ {i})

\* A subset of the pool of size team_size that satisfies every role,
\* wicket-keeper and overseas constraint
Admissible(cands, cons, S) ==
    /\ Cardinality(S) = cons.team_size
    /\ NBat(cands, S) >= cons.min_batters
    /\ NBowl(cands, S) >= cons.min_bowlers
    /\ NAllr(cands, S) >= cons.min_allrounders
    /\ NWk(cands, S) >= cons.min_wk
    /\ NWk(cands, S) <= cons.max_wk
    /\ NOverseas(cands, S) <= cons.max_overseas

\* The selection is made of distinct pool members
DistinctPoolMembers(ps, cands) ==
    /\ \A k \in 1..Len(ps) : \E i \in 1..Len(cands) : cands[i] = ps[k]
    /\ \A j, k \in 1..Len(ps) : j # k => ps[j].name # ps[k].name

\* C1: whenever the pool has at least team_size candidates, select_xi
\* returns exactly team_size players and a status in {Optimal, Feasible,
\* Suboptimal}, whatever status the solver ended with.
C1_SizeAndStatus ==
    (Returned /\ Len(candidates) >= constraints.team_size) =>
        /\ Len(selection.players) = constraints.team_size
        /\ selection.status \in {"Optimal", "Feasible", "Suboptimal"}

C1_Witness ==
    /\ Returned
    /\ Len(candidates) > constraints.team_size
    /\ lp_status = "Undefined"
    /\ selection.status = "Suboptimal"
    /\ Len(selection.players) = constraints.team_size

\* C2 as stated: a pool smaller than team_size is answered with status
\* "Infeasible-input", no players and total 0, and no program is built.
C2_Original ==
    (Returned /\ Len(candidates) < constraints.team_size) =>
        /\ selection.status = "Infeasible-input"
        /\ selection.players = <<>>
        /\ selection.total_score = 0
        /\ ~prob_built
        /\ solver = <<>>

\* C2 (amended): a pool smaller than team_size is answered with status
\* "Infeasible", an empty player list, total score 0 and all counts 0,
\* without building or solving the integer program.
C2_InfeasibleOnSmallPool ==
    (Returned /\ Len(candidates) < constraints.team_size) =>
        /\ selection = TeamSelection(<<>>, 0, 0, 0, 0, 0, "Infeasible")
        /\ ~prob_built
        /\ solver = <<>>
        /\ lp_status = "Not Solved"
        /\ x = {}

C2_Witness ==
    /\ Returned
    /\ Len(candidates) = 2
    /\ constraints.team_size = 3
    /\ selection.status = "Infeasible"

\* The premise of C3: the minimums sum to at most team_size and the pool
\* holds enough candidates of every role
C3_Adequate ==
    LET all == 1..Len(candidates)
    IN /\ constraints.min_batters + constraints.min_bowlers
            + constraints.min_allrounders + constraints.min_wk
               <= constraints.team_size
       /\ Len(candidates) >= constraints.team_size
       /\ NBat(candidates, all) >= constraints.min_batters
       /\ NBowl(candidates, all) >= constraints.min_bowlers
       /\ NAllr(candidates, all) >= constraints.min_allrounders
       /\ NWk(candidates, all) >= constraints.min_wk

\* The selection honours every minimum count
C3_HonoursMinimums ==
    LET ps == selection.players
    IN /\ CountRole(ps, {"BAT", "WK"}) >= constraints.min_batters
       /\ CountRole(ps, {"BOWL", "ALL"}) >= constraints.min_bowlers
       /\ CountRole(ps, {"ALL"}) >= constraints.min_allrounders
       /\ CountRole(ps, {"WK"}) >= constraints.min_wk

\* C3 as stated (granting that the solver ran to completion): an adequate
\* pool yields a non-fallback selection that honours every minimum.
C3_Original ==
    (Returned /\ C3_Adequate /\ lp_status \notin LpFailure) =>
        /\ selection.status # "Suboptimal"
        /\ C3_HonoursMinimums

\* C3 (amended): when some team_size-subset of the pool meets every role
\* minimum and also the max_wk and max_overseas caps, and the solver runs
\* to completion, select_xi returns a non-fallback status and the
\* selection honours every minimum count.
C3_FeasiblePoolNoFallback ==
    (/\ Returned
     /\ Len(candidates) >= constraints.team_size
     /\ lp_status \notin LpFailure
     /\ \E S \in SUBSET (1..Len(candidates)) :
            Admissible(candidates, constraints, S)) =>
        /\ selection.status # "Suboptimal"
        /\ C3_HonoursMinimums

C3_Witness ==
    /\ Returned
    /\ C3_Adequate
    /\ Len(candidates) > constraints.team_size
    /\ constraints.min_wk = 1
    /\ NWk(candidates, 1..Len(candidates)) = 1
    /\ selection.status = "Optimal"

\* C4: when select_xi returns Optimal, the total predicted score is the
\* maximum, over the admissible subsets of the pool, of the summed score.
C4_OptimalIsMaximum ==
    (Returned /\ selection.status = "Optimal") =>
        LET A == {S \in SUBSET (1..Len(candidates)) :
                     Admissible(candidates, constraints, S)}
        IN /\ \E S \in A : SetScore(candidates, S) = selection.total_score
           /\ \A S \in A : SetScore(candidates, S) <= selection.total_score

\* The 13-candidate demo squad under TeamConstraints()
C4_Witness ==
    /\ mode = "demo"
    /\ Returned
    /\ Len(candidates) = 13
    /\ constraints = DefaultConstraints
    /\ selection.status = "Optimal"

\* C5: when the solver ends with a status other than Optimal or Feasible
\* and the pool is large enough, select_xi returns status Suboptimal and
\* the team_size highest-scoring candidates in descending score order.
C5_GreedyFallback ==
    (Returned /\ prob_built /\ lp_status \notin {"Optimal", "Feasible"}) =>
        LET ps == selection.players
            n == Len(candidates)
        IN /\ selection.status = "Suboptimal"
           /\ Len(ps) = constraints.team_size
           /\ DistinctPoolMembers(ps, candidates)
           /\ \A k \in 1..Len(ps) :
                 /\ Cardinality({i \in 1..n : candidates[i].predicted_score
                                               > ps[k].predicted_score}) < k
                 /\ Cardinality({i \in 1..n : candidates[i].predicted_score
                                               >= ps[k].predicted_score}) >= k
           /\ \A k \in 1..(Len(ps) - 1) :
                 ps[k].predicted_score >= ps[k + 1].predicted_score

C5_Witness ==
    /\ Returned
    /\ lp_status = "Infeasible"
    /\ selection.status = "Suboptimal"
    /\ Len(candidates) > constraints.team_size
    /\ \E i, j \in 1..Len(candidates) :
          candidates[i].predicted_score < candidates[j].predicted_score

\* C6: a selection returned as Optimal or Feasible is made of exactly
\* team_size distinct pool members, satisfies every constraint, and its
\* reported counts and total are those of the returned players.
C6_SelectionSatisfiesConstraints ==
    (Returned /\ selection.status \in {"Optimal", "Feasible"}) =>
        LET ps == selection.players
            all == 1..Len(ps)
        IN /\ Len(ps) = constraints.team_size
           /\ DistinctPoolMembers(ps, candidates)
           /\ NBat(ps, all) >= constraints.min_batters
           /\ NBowl(ps, all) >= constraints.min_bowlers
           /\ NAllr(ps, all) >= constraints.min_allrounders
           /\ NWk(ps, all) >= constraints.min_wk
           /\ NWk(ps, all) <= constraints.max_wk
           /\ NOverseas(ps, all) <= constraints.max_overseas
           /\ selection.n_batters = NBat(ps, all)
           /\ selection.n_bowlers = NBowl(ps, all)
           /\ selection.n_allrounders = NAllr(ps, all)
           /\ selection.n_wk = NWk(ps, all)
           /\ selection.total_score = SetScore(ps, all)

C6_Witness ==
    /\ Returned
    /\ selection.status = "Optimal"
    /\ Len(candidates) > constraints.team_size
    /\ NWk(candidates, 1..Len(candidates)) > constraints.max_wk
    /\ NOverseas(candidates, 1..Len(candidates)) > constraints.max_overseas


\* C8 as stated: the solve step runs under a wall-clock time limit, so the
\* solver object select_xi creates carries one.
C8_SolveHasTimeLimit ==
    solver # <<>> => solver[1].timeLimit # <<>>

\* The fields of a PlayerCandidate other than the confidence interval
SameButInterval(c, d) ==
    /\ c.name = d.name
    /\ c.role = d.role
    /\ c.predicted_score = d.predicted_score
    /\ c.is_overseas = d.is_overseas
    /\ c.context_stats = d.context_stats

C10_BlendClipped ==
    (mode = "cli" /\ pc \in {"ci", "select", "report", "end"}) =>
        /\ xgb_w + rf_w = WScale
        /\ \A i \in 1..Len(candidates) :
              LET w == meta[1].xgb
                  r == candidates[i].context_stats[1]
                  raw == w * XgbPredict(r) + (WScale - w) * RfPredict(r)
                  score == candidates[i].predicted_score
              IN /\ score >= 0
                 /\ score <= 100 * WScale
                 /\ score = IF raw < 0 THEN 0
                            ELSE IF raw > 100 * WScale THEN 100 * WScale
                            ELSE raw

\* A true blend (0 < w < 1) whose raw value is clipped at 100, and one
\* that is not
C10_Witness ==
    /\ mode = "cli"
    /\ pc = "select"
    /\ xgb_w > 0
    /\ rf_w > 0
    /\ \E i, j \in 1..Len(candidates) :
          /\ Blend(xgb_w, rf_w, XgbPredict(candidates[i].context_stats[1]),
                   RfPredict(candidates[i].context_stats[1])) > ClipHi * WScale
          /\ candidates[i].predicted_score = ClipHi * WScale
          /\ candidates[j].predicted_score < ClipHi * WScale
          /\ candidates[j].predicted_score > 0

\* ======================================================================
\* The components around the pipeline. Each has its own specification;
\* the pipeline is at rest in all of them.
\* ======================================================================

\* The prediction pipeline is not running.
PipeIdle ==
    /\ mode = "cli"
    /\ pc = "end"
    /\ squad_names = <<>>
    /\ overseas = {}
    /\ meta = <<>>
    /\ xgb_w = 0
    /\ rf_w = 0
    /\ candidates = <<>>
    /\ constraints = DefaultConstraints
    /\ prob_built = FALSE
    /\ solver = <<>>
    /\ lp_status = "Not Solved"
    /\ x = {}
    /\ selection = NoSelection
    /\ report = <<>>

pipeVars == <<mode, pc, squad_names, overseas, meta, xgb_w, rf_w, candidates,
              constraints, prob_built, solver, lp_status, x, selection,
              report>>

\* ------------------------------------------------ decay weights (04)
\* Dates are day numbers 0..MaxDay; at most MaxDates dates per call.
MaxDay == 3
MaxDates == 3
\* half_life_days ranges over 1..MaxHalfLife
MaxHalfLife == 3

\* (reference_date - dates).dt.days.clip(lower=0)
DaysAgo_NoClip(d, ref) == ref - d
DaysAgo(d, ref) == Max(ref - d, 0)

\* np.exp(-np.log(2) * days_ago / half_life_days) is the real number
\* 2^(-days_ago / half_life_days). It is kept exactly, as the rational
\* exponent days_ago / half_life_days: [num, den] stands for 2^(-num/den).
\* Floating-point rounding (about 1e-16 relative) is not represented.
DecayWeight_Squared(days_ago, H) == [num |-> 2 * days_ago, den |-> H]
DecayWeight(days_ago, H) == [num |-> days_ago, den |-> H]

\* 2^(-num/den) = 1.0,  = 0.5,  lies in (0, 1]
IsOne(w) == w.num = 0
IsHalf(w) == w.num = w.den
InUnitInterval(w) == w.den > 0 /\ w.num >= 0
\* 2^(-a.num/a.den) < 2^(-b.num/b.den), denominators positive
WeightLess(a, b) == a.num * b.den > b.num * a.den

\* compute_decay_weight(dates, reference_date, half_life_days)
compute_decay_weight(ds, ref, H) ==
    [i \in 1..Len(ds) |-> DecayWeight(DaysAgo(ds[i], ref), H)]

DateSeqs == UNION {[1..n -> 0..MaxDay] : n \in 0..MaxDates}

InitDecay ==
    /\ PipeIdle
    /\ AggIdle
    /\ SplitIdle
    /\ FeatIdle
    /\ EncIdle
    /\ FormIdle
    /\ JustIdle
    /\ ImpIdle
    /\ EngIdle
    /\ SesIdle
    /\ decay_pc = "call"
    /\ dates \in DateSeqs
    /\ reference_date \in 0..MaxDay
    /\ half_life_days \in 1..MaxHalfLife
    /\ decay_w = <<>>

ComputeDecayWeight ==
    /\ decay_pc = "call"
    /\ decay_w' = compute_decay_weight(dates, reference_date, half_life_days)
    /\ decay_pc' = "done"
    /\ UNCHANGED <<dates, reference_date, half_life_days>>
    /\ UNCHANGED <<pipeVars, aggVars, splitVars, featVars, encVars, formVars,
                  justVars, impVars, engVars, sesVars>>

NextDecay == ComputeDecayWeight

SpecDecay == InitDecay /\ [][NextDecay]_vars

\* C19: compute_decay_weight returns 1.0 for an event at elapsed time 0
\* and 0.5 for an event exactly one half-life before the reference date,
\* for every positive half-life.
C19_OneAtZeroHalfAtHalfLife ==
    decay_pc = "done" =>
        \A i \in 1..Len(dates) :
            /\ dates[i] = reference_date => IsOne(decay_w[i])
            /\ reference_date - dates[i] = half_life_days
                   => IsHalf(decay_w[i])

C19_Witness ==
    /\ decay_pc = "done"
    /\ half_life_days > 1
    /\ \E i, j \in 1..Len(dates) :
          /\ dates[i] = reference_date
          /\ reference_date - dates[j] = half_life_days

\* C20: every decay weight lies in (0, 1]; of two events not after the
\* reference date the older one has the strictly smaller weight; an event
\* dated on or after the reference date has weight exactly 1.0.
C20_UnitIntervalDecreasingClamped ==
    decay_pc = "done" =>
        \A i \in 1..Len(dates) :
            /\ InUnitInterval(decay_w[i])
            /\ dates[i] >= reference_date => IsOne(decay_w[i])
            /\ \A j \in 1..Len(dates) :
                  (dates[j] < dates[i] /\ dates[i] <= reference_date)
                      => WeightLess(decay_w[j], decay_w[i])

C20_Witness ==
    /\ decay_pc = "done"
    /\ \E i, j, k \in 1..Len(dates) :
          /\ dates[i] > reference_date
          /\ dates[j] < dates[k]
          /\ dates[k] < reference_date

\* ------------------------------------- select_xi called directly (07)
\* select_xi(candidates, constraints) with a pool and a TeamConstraints of
\* the caller's choosing; mode "lib" marks the direct call.
LibScores == {20, 40}

LibPools ==
    UNION { { [i \in 1..n |->
                  PlayerCandidate(PlayerList[i], roles[i], scores[i],
                                  PlayerList[i] \in ovs, <<>>)] :
              roles \in [1..n -> Roles], scores \in [1..n -> LibScores],
              ovs \in OverseasChoices } :
            n \in 0..MaxPool }

InitLib ==
    /\ mode = "lib"
    /\ pc = "select"
    /\ candidates \in LibPools
    /\ squad_names = <<>>
    /\ overseas = {}
    /\ meta = <<>>
    /\ xgb_w = 0
    /\ rf_w = 0
    /\ constraints = DefaultConstraints
    /\ prob_built = FALSE
    /\ solver = <<>>
    /\ lp_status = "Not Solved"
    /\ x = {}
    /\ selection = NoSelection
    /\ report = <<>>
    /\ AuxIdle

NextLib ==
    \/ SelectXiTooSmall
    \/ SelectXiSolve

SpecLib == InitLib /\ [][NextLib]_vars

\* A TeamConstraints the claim calls malformed
Malformed(cons) ==
    \/ cons.team_size < 0
    \/ cons.min_batters < 0
    \/ cons.min_bowlers < 0
    \/ cons.min_allrounders < 0
    \/ cons.min_wk < 0
    \/ cons.max_wk < 0
    \/ cons.max_overseas < 0
    \/ cons.min_wk > cons.max_wk
    \/ cons.team_size < cons.min_batters + cons.min_bowlers
                          + cons.min_allrounders + cons.min_wk

\* C18: a malformed TeamConstraints (a negative bound, min_wk > max_wk, or
\* team_size below the sum of the role minimums) never reaches the SOLVE
\* step of select_xi: no program is built or solved for it.
C18_MalformedNeverSolved ==
    (pc = "report" /\ Malformed(constraints)) => ~prob_built

\* ------------------------------- batting and bowling profiles (04)
\* config.py
MIN_BATTING_INNINGS == 5
MIN_BOWLING_INNINGS == 5

\* Matches 1..MaxMatches; main is run at most MaxAggRuns times on a log.
MaxMatches == 6
MaxAggRuns == 2

AggPlayers == {"A", "B"}
AggFormats == {"ODI", "T20"}

\* match_format of a match: a column of the log, constant within a match
MatchFormat(m) == IF m = 1 THEN "ODI" ELSE "T20"

\* one row of deliveries_clean.csv
Delivery(batter, bowler, m, wide) ==
    [batter |-> batter, bowler |-> bowler, match_id |-> m,
     match_format |-> MatchFormat(m), is_wide |-> wide]

\* What is logged of match m: nothing, a legal ball A faces from B, a wide
\* A faces from B, or a legal ball B faces from A.
MatchPatterns == 0..3
MatchDeliveries(m, k) ==
    CASE k = 0 -> {}
      [] k = 1 -> {Delivery("A", "B", m, 0)}
      [] k = 2 -> {Delivery("A", "B", m, 1)}
      [] k = 3 -> {Delivery("B", "A", m, 0)}

\* balls = df[df["is_wide"] == 0]; balls.groupby([batter, match_format,
\* match_id, ...]): one innings row per batter and match
BatInnings(df) ==
    { [player |-> d.batter, match_format |-> d.match_format,
       match_id |-> d.match_id] : d \in {e \in df : e.is_wide = 0} }

\* balls = df.copy(); balls.groupby([bowler, match_format, match_id, ...])
BowlInnings(df) ==
    { [player |-> d.bowler, match_format |-> d.match_format,
       match_id |-> d.match_id] : d \in df }

\* if len(grp_df) < MIN_..._INNINGS: continue
TooFewInnings_Inclusive(n, min) == n <= min
TooFewInnings(n, min) == n < min

\* innings.groupby([player, match_format]) iterates the keys in sorted order
PairOrder ==
    << <<"A", "ODI">>, <<"A", "T20">>, <<"B", "ODI">>, <<"B", "T20">> >>

GroupOf(innings, pair) ==
    {r \in innings : r.player = pair[1] /\ r.match_format = pair[2]}

\* profiles: one dict appended per group that is not skipped
Profiles(innings, min) ==
    LET prof(i) == [player |-> PairOrder[i][1],
                   match_format |-> PairOrder[i][2],
                   total_innings |->
                       Cardinality(GroupOf(innings, PairOrder[i]))]
        kept == {i \in 1..Len(PairOrder) :
                    /\ GroupOf(innings, PairOrder[i]) # {}
                    /\ ~TooFewInnings(
                           Cardinality(GroupOf(innings, PairOrder[i])), min)}
    IN  Pick([i \in 1..Len(PairOrder) |-> prof(i)], kept)

\* result.to_csv(out, index=False): the file is replaced
ToCsv_Append(old, rows) == old \o rows
ToCsv(old, rows) == rows

InitAgg ==
    /\ PipeIdle
    /\ DecayIdle
    /\ SplitIdle
    /\ FeatIdle
    /\ EncIdle
    /\ FormIdle
    /\ JustIdle
    /\ ImpIdle
    /\ EngIdle
    /\ SesIdle
    /\ agg_pc = "bat"
    /\ agg_runs = 0
    /\ \E f \in [1..MaxMatches -> MatchPatterns] :
          deliveries = UNION {MatchDeliveries(m, f[m]) : m \in 1..MaxMatches}
    /\ bat_profiles = <<>>
    /\ bowl_profiles = <<>>

BuildBattingProfiles ==
    /\ agg_pc = "bat"
    /\ bat_profiles' =
           ToCsv(bat_profiles,
                 Profiles(BatInnings(deliveries), MIN_BATTING_INNINGS))
    /\ agg_pc' = "bowl"
    /\ UNCHANGED <<agg_runs, deliveries, bowl_profiles>>
    /\ UNCHANGED <<pipeVars, decayVars, splitVars, featVars, encVars,
                  formVars, justVars, impVars, engVars, sesVars>>

BuildBowlingProfiles ==
    /\ agg_pc = "bowl"
    /\ bowl_profiles' =
           ToCsv(bowl_profiles,
                 Profiles(BowlInnings(deliveries), MIN_BOWLING_INNINGS))
    /\ agg_pc' = "done"
    /\ agg_runs' = agg_runs + 1
    /\ UNCHANGED <<deliveries, bat_profiles>>
    /\ UNCHANGED <<pipeVars, decayVars, splitVars, featVars, encVars,
                  formVars, justVars, impVars, engVars, sesVars>>

\* 04_feature_engineering.py is run again on the same log
RunAggAgain ==
    /\ agg_pc = "done"
    /\ agg_runs < MaxAggRuns
    /\ agg_pc' = "bat"
    /\ UNCHANGED <<agg_runs, deliveries, bat_profiles, bowl_profiles>>
    /\ UNCHANGED <<pipeVars, decayVars, splitVars, featVars, encVars,
                  formVars, justVars, impVars, engVars, sesVars>>

NextAgg ==
    \/ BuildBattingProfiles
    \/ BuildBowlingProfiles
    \/ RunAggAgain

SpecAgg == InitAgg /\ [][NextAgg]_vars

\* Matches in which p has an innings row in format f, read off the log
BattedIn(p, f) ==
    {m \in 1..MaxMatches :
        \E d \in deliveries : /\ d.batter = p /\ d.match_format = f
                              /\ d.match_id = m /\ d.is_wide = 0}
BowledIn(p, f) ==
    {m \in 1..MaxMatches :
        \E d \in deliveries : /\ d.bowler = p /\ d.match_format = f
                              /\ d.match_id = m}
RowsFor(profiles, p, f) ==
    Cardinality({i \in 1..Len(profiles) :
                    profiles[i].player = p /\ profiles[i].match_format = f})

\* C12: a (player, format) pair with fewer innings rows than
\* MIN_BATTING_INNINGS (MIN_BOWLING_INNINGS) has no row in the batting
\* (bowling) profiles; a pair with at least that many has exactly one row.
C12_ThresholdAbsence ==
    agg_pc = "done" =>
        \A p \in AggPlayers, f \in AggFormats :
            /\ RowsFor(bat_profiles, p, f) =
                   (IF Cardinality(BattedIn(p, f)) < MIN_BATTING_INNINGS
                    THEN 0 ELSE 1)
            /\ RowsFor(bowl_profiles, p, f) =
                   (IF Cardinality(BowledIn(p, f)) < MIN_BOWLING_INNINGS
                    THEN 0 ELSE 1)

C12_Witness ==
    /\ agg_pc = "done"
    /\ Cardinality(BattedIn("A", "T20")) = MIN_BATTING_INNINGS - 1
    /\ Cardinality(BowledIn("B", "T20")) = MIN_BOWLING_INNINGS
    /\ Cardinality(BattedIn("A", "ODI")) = 1
    /\ Len(bat_profiles) = 0
    /\ Len(bowl_profiles) = 1

MaxSplitRows == 7
SplitDays == 1..3
NaT == 0

\* cross_validate_model(..., n_splits = 5)
N_SPLITS == 5
\* df["date"].quantile(0.80) = QuantileNum / QuantileDen
QuantileNum == 4
QuantileDen == 5

\* --holdout-date: None (0) or an ISO date
HoldoutChoices == {0, 3}

\* merged.sort_values(["date", "match_id", "impact_score"]): row i comes
\* before row j; NaT sorts last. The row id stands for match_id.
DateBefore_Unsorted(rows, i, j) == i < j
DateBefore(rows, i, j) ==
    \/ rows[i].date # NaT /\ rows[j].date = NaT
    \/ rows[i].date # NaT /\ rows[j].date # NaT /\ rows[i].date < rows[j].date
    \/ rows[i].date = rows[j].date /\ rows[i].id < rows[j].id

SortByDate(rows) ==
    [k \in 1..Len(rows) |->
        rows[CHOOSE i \in 1..Len(rows) :
                Cardinality({j \in 1..Len(rows) : DateBefore(rows, j, i)})
                    = k - 1]]

\* df[mask]: the rows that satisfy keep, in order
Filter(rows, keep(_)) == Pick(rows, {i \in 1..Len(rows) : keep(rows[i])})

\* df[df["date"].notna()]
Dated(rows) == LET keep(r) == r.date # NaT IN Filter(rows, keep)

\* 5 * df["date"].quantile(0.80), linear interpolation between the order
\* statistics around position 0.8 * (n - 1); df has n >= 1 dated rows
Quantile5(rows) ==
    LET srt == SortByDate(rows)
        n   == Len(rows)
        lo  == (QuantileNum * (n - 1)) \div QuantileDen
        r   == (QuantileNum * (n - 1)) % QuantileDen
    IN  IF r = 0 THEN QuantileDen * srt[lo + 1].date
        ELSE QuantileDen * srt[lo + 1].date
                 + r * (srt[lo + 2].date - srt[lo + 1].date)

\* cutoff of time_split on the dated rows df
Cutoff5(df, holdout) ==
    IF holdout # 0 THEN QuantileDen * holdout ELSE Quantile5(df)

\* train = df[df["date"] < cutoff]; test = df[df["date"] >= cutoff]
IsTrain(r, c5) == QuantileDen * r.date < c5
TrainRows(df, c5) == LET keep(r) == IsTrain(r, c5) IN Filter(df, keep)
TestRows(df, c5) == LET keep(r) == ~(QuantileDen * r.date < c5)
                    IN Filter(df, keep)

\* sklearn TimeSeriesSplit(n_splits).split(X) on n samples, fold k of
\* 1..n_splits: fit on the first test_start rows, evaluate on the next
\* test_size rows
TestSize(n) == n \div (N_SPLITS + 1)
TestStart(n, k) == n - (N_SPLITS - k + 1) * TestSize(n)
Fold(df, k) ==
    [tr  |-> SubSeq(df, 1, TestStart(Len(df), k)),
     val |-> SubSeq(df, TestStart(Len(df), k) + 1,
                    TestStart(Len(df), k) + TestSize(Len(df)))]

InitSplit ==
    /\ PipeIdle
    /\ DecayIdle
    /\ AggIdle
    /\ FeatIdle
    /\ EncIdle
    /\ FormIdle
    /\ JustIdle
    /\ ImpIdle
    /\ EngIdle
    /\ SesIdle
    /\ split_pc = "impacts"
    /\ \E f \in [1..MaxSplitRows -> {NaT} \cup SplitDays] :
          /\ Cardinality({i \in 1..MaxSplitRows : f[i] = NaT}) <= 1
          /\ merged = [i \in 1..MaxSplitRows |-> [id |-> i, date |-> f[i]]]
    /\ impacts = <<>>
    /\ cutoff5 = 0
    /\ train = <<>>
    /\ test = <<>>
    /\ evals = <<>>
    /\ tuned = <<>>

\* 04 build_impact_scores: sort, then to_csv
BuildImpactScores ==
    /\ split_pc = "impacts"
    /\ impacts' = SortByDate(merged)
    /\ split_pc' = "matrix"
    /\ UNCHANGED <<merged, cutoff5, train, test, evals, tuned>>
    /\ UNCHANGED <<pipeVars, decayVars, aggVars, featVars, encVars, formVars,
                  justVars, impVars, engVars, sesVars>>

\* 05 main: the matrix keeps the rows of impacts in order (left merges, row
\* filters); time_split. The log lines of time_split call .date() on the
\* min of train and of test, which raises on an empty frame.
BuildFeatureMatrix ==
    /\ split_pc = "matrix"
    /\ \E holdout \in HoldoutChoices :
          LET df == Dated(impacts)
              c5 == Cutoff5(df, holdout)
          IN  IF \/ (holdout = 0 /\ Len(df) = 0)
                 \/ Len(TrainRows(df, c5)) = 0
                 \/ Len(TestRows(df, c5)) = 0
              THEN /\ split_pc' = "error"
                   /\ UNCHANGED <<cutoff5, train, test>>
              ELSE /\ cutoff5' = c5
                   /\ train' = TrainRows(df, c5)
                   /\ test' = TestRows(df, c5)
                   /\ split_pc' = "train"
    /\ UNCHANGED <<merged, impacts, evals, tuned>>
    /\ UNCHANGED <<pipeVars, decayVars, aggVars, featVars, encVars, formVars,
                  justVars, impVars, engVars, sesVars>>

\* 06 main: cross_validate_model on the training rows (TimeSeriesSplit
\* raises when there are fewer than n_splits + 1), then the fit on the
\* full training set evaluated on the test set; between the two, the blend
\* weight is tuned on xgb_pipe.predict(X_train), rf_pipe.predict(X_train)
\* and y_train
TrainModels ==
    /\ split_pc = "train"
    /\ IF Len(train) < N_SPLITS + 1
       THEN /\ split_pc' = "error"
            /\ UNCHANGED <<evals, tuned>>
       ELSE /\ evals' = [k \in 1..N_SPLITS |-> Fold(train, k)]
                            \o <<[tr |-> train, val |-> test]>>
            /\ tuned' = train
            /\ split_pc' = "trained"
    /\ UNCHANGED <<merged, impacts, cutoff5, train, test>>
    /\ UNCHANGED <<pipeVars, decayVars, aggVars, featVars, encVars, formVars,
                  justVars, impVars, engVars, sesVars>>

NextSplit ==
    \/ BuildImpactScores
    \/ BuildFeatureMatrix
    \/ TrainModels

SpecSplit == InitSplit /\ [][NextSplit]_vars

Ids(rows) == {rows[i].id : i \in 1..Len(rows)}

\* C11: in every evaluation (each cross-validation fold and the final
\* hold-out) no row fitted on is dated later than a row evaluated on; and
\* train and test partition the dated rows, every train date before the
\* cutoff and every test date on or after it.
C11_NoLaterRowFitted ==
    /\ split_pc = "trained" =>
          \A e \in 1..Len(evals) :
              \A a \in 1..Len(evals[e].tr), b \in 1..Len(evals[e].val) :
                  evals[e].tr[a].date <= evals[e].val[b].date
    /\ split_pc \in {"train", "trained"} =>
          /\ Ids(train) \cup Ids(test) =
                 {i \in 1..Len(merged) : merged[i].date # NaT}
          /\ Ids(train) \cap Ids(test) = {}
          /\ Len(train) + Len(test) = Cardinality(Ids(train) \cup Ids(test))
          /\ \A a \in 1..Len(train) : QuantileDen * train[a].date < cutoff5
          /\ \A b \in 1..Len(test) : cutoff5 <= QuantileDen * test[b].date

C11_Witness ==
    /\ split_pc = "trained"
    /\ \E a, b \in 1..Len(train) : train[a].date < train[b].date
    /\ \E i, j \in 1..Len(merged) :
          /\ i < j
          /\ merged[i].date # NaT /\ merged[j].date # NaT
          /\ merged[j].date < merged[i].date
          /\ merged[i].date = 2
    /\ \E e \in 1..N_SPLITS : Len(evals[e].val) > 0

\* --------------------------- feature vectors (05, 06, 08, backend)
\* The matrix has MaxMatrixRows rows in date order.
MaxMatrixRows == 3

\* np.nan; every observed value is >= 0
NaN == -1
IsNaN(v) == v = NaN

\* FEATURE_COLS of 06_train_models, one column of each kind: two batting
\* profile columns, a bowling one, the encoded context and a raw
\* performance field
FEATURE_COLS ==
    << "career_sr", "batter_sr_this_pitch", "career_economy",
       "match_format_enc", "pitch_type_enc", "role_enc", "batting_first",
       "runs" >>

Range(seq) == {seq[i] : i \in 1..Len(seq)}

\* dict.get(key, default)
Get(d, key, default) == IF key \in DOMAIN d THEN d[key] ELSE default
\* d[key] = v
Put(d, key, v) ==
    [k \in DOMAIN d \cup {key} |-> IF k = key THEN v ELSE d[k]]

\* The feature columns build_matrix can leave in the matrix
MatrixColChoices ==
    { Range(FEATURE_COLS), Range(FEATURE_COLS) \ {"batter_sr_this_pitch"} }

MatrixFormats == {"t20", "odi"}
\* career_sr of a matrix row: not observed, or one of two values
MatrixValues == {NaN, 100, 140}

\* Columns other than career_sr are observed in every matrix row
ObservedTrain(col) == IF col = "runs" THEN 30 ELSE 1

\* The values of vs in ascending order (vs a sequence of numbers)
SortedValues(vs) ==
    [k \in 1..Len(vs) |->
        vs[CHOOSE i \in 1..Len(vs) :
              Cardinality({j \in 1..Len(vs) :
                              vs[j] < vs[i] \/ (vs[j] = vs[i] /\ j < i)})
                  = k - 1]]

\* Series.median(): NaN are skipped, NaN when nothing is left
Median(vs) ==
    LET obs == SortedValues(Pick(vs, {i \in 1..Len(vs) : ~IsNaN(vs[i])}))
        n   == Len(obs)
    IN  IF n = 0 THEN NaN
        ELSE IF n % 2 = 1 THEN obs[(n + 1) \div 2]
        ELSE (obs[n \div 2] + obs[n \div 2 + 1]) \div 2

\* df.loc[mask, col] for mask = (match_format == fmt), col = career_sr
SegmentValues(df, fmt) ==
    LET seg == Pick(df, {i \in 1..Len(df) : df[i].match_format = fmt})
    IN  [i \in 1..Len(seg) |-> seg[i].career_sr]

\* encode_and_impute: df.loc[mask & df[col].isna(), col] = median_val,
\* the median taken over every row of df of that format
Impute(df) ==
    [i \in 1..Len(df) |->
        IF IsNaN(df[i].career_sr)
        THEN [df[i] EXCEPT
                 !.career_sr = Median(SegmentValues(df, df[i].match_format))]
        ELSE df[i]]

\* fillna(0), and the fill loop of build_player_feature_row
FillNa_Keep(v) == v
FillNa(v) == IF IsNaN(v) THEN 0 ELSE v

\* get_Xy: available + missing
XyColumns(cols) ==
    Pick(FEATURE_COLS, {i \in 1..Len(FEATURE_COLS) : FEATURE_COLS[i] \in cols})
        \o Pick(FEATURE_COLS,
                {i \in 1..Len(FEATURE_COLS) : FEATURE_COLS[i] \notin cols})

\* get_Xy: missing columns are set to 0.0, then fillna(0)
GetXy(df, cols) ==
    [r \in 1..Len(df) |->
        [c \in 1..Len(XyColumns(cols)) |->
            LET name == XyColumns(cols)[c]
            IN  [name |-> name,
                 value |->
                     IF name \notin cols THEN 0
                     ELSE IF name = "career_sr" THEN FillNa(df[r].career_sr)
                     ELSE ObservedTrain(name)]]]

\* the encoding maps of build_player_feature_row and of predict_engine
FORMAT_ENC == [t20 |-> 2, odi |-> 1, test |-> 0]
PITCH_ENC == [flat |-> 1, spin |-> 4, seam |-> 3, pace |-> 2, balanced |-> 0]
ROLE_ENC == [BAT |-> 0, BOWL |-> 1, ALL |-> 2, WK |-> 3]

\* str.lower() on the pitch types of PitchInputs
Lower(str) == IF str = "Spin" THEN "spin" ELSE str

\* get_player_role / _get_role
GetPlayerRole(is_wk_name, has_bat, has_bowl) ==
    IF is_wk_name THEN "WK"
    ELSE IF has_bat /\ has_bowl THEN "ALL"
    ELSE IF has_bowl THEN "BOWL"
    ELSE "BAT"

\* The prediction contexts: format and pitch type as passed in, whether the
\* name holds a keeper keyword, whether the player has a batting profile
\* row, whether that row has the strike rate on this pitch type, whether
\* the player has a bowling profile row.
FormatInputs == {"t20", "odi", "t10"}
PitchInputs == {"flat", "Spin", "dusty"}
Contexts ==
    { c \in [fmt : FormatInputs, pitch : PitchInputs, is_wk_name : BOOLEAN,
             has_bat : BOOLEAN, has_pitch_sr : BOOLEAN, has_bowl : BOOLEAN] :
        /\ c.has_pitch_sr => c.has_bat
        /\ c.has_pitch_sr => Lower(c.pitch) \in DOMAIN PITCH_ENC }

\* build_player_feature_row up to the encodings: the row before the fill
\* loop. opponent_difficulty (0.5) is kept in tenths.
Assemble(c, cols) ==
    LET r0 == [k \in Range(cols) |-> NaN]
        r1 == IF c.has_bat
              THEN Put(Put(r0, "career_sr", 150), "batter_sr_this_pitch",
                       IF c.has_pitch_sr THEN 160 ELSE NaN)
              ELSE r0
        r2 == IF c.has_bowl THEN Put(r1, "career_economy", 7) ELSE r1
        r3 == Put(r2, "opponent_difficulty", 5)
        role == GetPlayerRole(c.is_wk_name, c.has_bat, c.has_bowl)
        r4 == Put(r3, "match_format_enc", Get(FORMAT_ENC, c.fmt, 2))
        r5 == Put(r4, "pitch_type_enc", Get(PITCH_ENC, Lower(c.pitch), 0))
        r6 == Put(r5, "role_enc", Get(ROLE_ENC, role, 0))
    IN  Put(r6, "batting_first", 0)

\* the fill loop: for col in feature_cols, a missing or NaN entry is 0.0
FillRow(r, cols) ==
    [k \in DOMAIN r \cup Range(cols) |->
        IF k \in Range(cols) THEN (IF k \in DOMAIN r THEN FillNa(r[k]) ELSE 0)
        ELSE r[k]]

\* pd.DataFrame(rows)[feature_cols].fillna(0), one row
ToVector(r, cols) ==
    [i \in 1..Len(cols) |-> [name |-> cols[i], value |-> FillNa(r[cols[i]])]]

InitFeat ==
    /\ PipeIdle
    /\ DecayIdle
    /\ AggIdle
    /\ SplitIdle
    /\ EncIdle
    /\ FormIdle
    /\ JustIdle
    /\ ImpIdle
    /\ EngIdle
    /\ SesIdle
    /\ feat_pc = "matrix"
    /\ \E fm \in [1..MaxMatrixRows -> MatrixFormats],
          sr \in [1..MaxMatrixRows -> MatrixValues] :
          matrix = [i \in 1..MaxMatrixRows |->
                       [match_format |-> fm[i], career_sr |-> sr[i]]]
    /\ matrix_cols \in MatrixColChoices
    /\ train_df = <<>>
    /\ X_train = <<>>
    /\ feature_cols = <<>>
    /\ ctx = <<>>
    /\ assembled = <<>>
    /\ row = <<>>
    /\ X = <<>>

\* 05 main: encode_and_impute on the whole matrix, then time_split; the
\* matrix is in date order and the cutoff leaves its last row to the test
\* set
EncodeImputeSplit ==
    /\ feat_pc = "matrix"
    /\ train_df' = SubSeq(Impute(matrix), 1, Len(matrix) - 1)
    /\ feat_pc' = "train"
    /\ UNCHANGED <<matrix, matrix_cols, X_train, feature_cols, ctx,
                   assembled, row, X>>
    /\ UNCHANGED <<pipeVars, decayVars, aggVars, splitVars, encVars,
                  formVars, justVars, impVars, engVars, sesVars>>

\* 06 main: get_Xy(train_df); feature_names = list(X_train.columns) is
\* written to ensemble_weights.json as "feature_cols"
TrainOnMatrix ==
    /\ feat_pc = "train"
    /\ X_train' = GetXy(train_df, matrix_cols)
    /\ feature_cols' = XyColumns(matrix_cols)
    /\ feat_pc' = "predict"
    /\ UNCHANGED <<matrix, matrix_cols, train_df, ctx, assembled, row, X>>
    /\ UNCHANGED <<pipeVars, decayVars, aggVars, splitVars, encVars,
                  formVars, justVars, impVars, engVars, sesVars>>

\* predict_squad / predict_engine.predict on one player: the feature row
\* and the vector handed to xgb_pipe.predict and rf_pipe.predict
PredictPlayer ==
    /\ feat_pc = "predict"
    /\ \E c \in Contexts :
          /\ ctx' = <<c>>
          /\ assembled' = Assemble(c, feature_cols)
          /\ row' = FillRow(Assemble(c, feature_cols), feature_cols)
          /\ X' = ToVector(FillRow(Assemble(c, feature_cols), feature_cols),
                           feature_cols)
    /\ feat_pc' = "predicted"
    /\ UNCHANGED <<matrix, matrix_cols, train_df, X_train, feature_cols>>
    /\ UNCHANGED <<pipeVars, decayVars, aggVars, splitVars, encVars,
                  formVars, justVars, impVars, engVars, sesVars>>

NextFeat ==
    \/ EncodeImputeSplit
    \/ TrainOnMatrix
    \/ PredictPlayer

SpecFeat == InitFeat /\ [][NextFeat]_vars

\* The value of column name in a vector
ValueOf(vec, name) ==
    vec[CHOOSE c \in 1..Len(vec) : vec[c].name = name].value

\* The rows of the matrix that time_split puts in the training set
TrainingPopulation == SubSeq(matrix, 1, Len(matrix) - 1)

\* Median of column col over the training rows of format fmt, NaN when the
\* training set has no such column or no such row
TrainMedian(col, fmt) ==
    IF col \notin matrix_cols THEN NaN
    ELSE IF col = "career_sr"
         THEN Median(SegmentValues(TrainingPopulation, fmt))
    ELSE IF \E i \in 1..Len(TrainingPopulation) :
                TrainingPopulation[i].match_format = fmt
         THEN ObservedTrain(col)
    ELSE NaN

\* The feature names build_player_feature_row assigns a value to
AssemblerFeatures ==
    { "career_sr", "batter_sr_this_pitch", "career_economy",
      "opponent_difficulty", "match_format_enc", "pitch_type_enc",
      "role_enc", "batting_first" }

\* C14: a numeric feature that is missing after assembly is imputed with
\* the median of that feature over the training rows of the same format
\* (where there is one), in the training vectors and in the vector built
\* at prediction time.
C14_MissingImputedWithSegmentMedian ==
    /\ feat_pc \in {"predict", "predicted"} =>
          \A r \in 1..Len(train_df) :
              (/\ "career_sr" \in matrix_cols
               /\ IsNaN(matrix[r].career_sr)
               /\ ~IsNaN(TrainMedian("career_sr", matrix[r].match_format)))
                  => ValueOf(X_train[r], "career_sr")
                         = TrainMedian("career_sr", matrix[r].match_format)
    /\ feat_pc = "predicted" =>
          \A i \in 1..Len(feature_cols) :
              (/\ IsNaN(assembled[feature_cols[i]])
               /\ ~IsNaN(TrainMedian(feature_cols[i], ctx[1].fmt)))
                  => X[i].value = TrainMedian(feature_cols[i], ctx[1].fmt)

\* C15: the vector passed to the regressors has exactly the names of the
\* serialized feature list, in its order, each with a value that is not
\* NaN.
C15_VectorComplete ==
    feat_pc = "predicted" =>
        /\ Len(X) = Len(feature_cols)
        /\ Len(X) = Len(FEATURE_COLS)
        /\ \A i \in 1..Len(X) :
              /\ X[i].name = feature_cols[i]
              /\ ~IsNaN(X[i].value)

C15_Witness ==
    /\ feat_pc = "predicted"
    /\ ~ctx[1].has_bat
    /\ ~ctx[1].has_bowl
    /\ ctx[1].fmt = "t10"
    /\ \A n \in {"career_sr", "batter_sr_this_pitch", "career_economy",
                 "runs"} : IsNaN(assembled[n])

\* C16: a format, pitch type or role that is not a key of its encoding map
\* gets a code that no key of the map has.
C16_UnknownCodeDistinct ==
    feat_pc = "predicted" =>
        /\ ctx[1].fmt \notin DOMAIN FORMAT_ENC =>
              \A k \in DOMAIN FORMAT_ENC :
                  row["match_format_enc"] # FORMAT_ENC[k]
        /\ Lower(ctx[1].pitch) \notin DOMAIN PITCH_ENC =>
              \A k \in DOMAIN PITCH_ENC :
                  row["pitch_type_enc"] # PITCH_ENC[k]

\* C17: a required feature column that the training matrix or the
\* assembler does not supply stops the run: training does not go on without
\* a column of FEATURE_COLS, and no vector is predicted on when the
\* serialized list names a feature the assembler does not produce.
C17_MismatchAborts ==
    /\ feat_pc \in {"predict", "predicted"} =>
          Range(FEATURE_COLS) \subseteq matrix_cols
    /\ feat_pc = "predicted" =>
          Range(feature_cols) \subseteq AssemblerFeatures

\* ------------------------------------------ fallback tie order (07)
\* The orders in which a pool of n candidates can be supplied
PoolOrders(n) ==
    {f \in [1..n -> 1..n] : \A i, j \in 1..n : f[i] = f[j] => i = j}

NameSet(ps) == {ps[i].name : i \in 1..Len(ps)}

\* C21: the greedy fallback selects the same players whatever the order in
\* which the pool is supplied.
C21_FallbackOrderIndependent ==
    (pc = "report" /\ prob_built /\ NeedsFallback(lp_status)) =>
        \A f \in PoolOrders(Len(candidates)) :
            NameSet(Take(SortedCands([i \in 1..Len(candidates) |->
                                         candidates[f[i]]]),
                         constraints.team_size))
                = NameSet(selection.players)

\* ------------------------------------ roles and categorical codes (05, 08)
\* Rows of the matrix the encoders are fitted on
MaxEncRows == 2

EncPlayers == {"MS Dhoni", "KL Rahul", "CA Ingram", "V Kohli"}
\* the keeper keywords that occur in player.lower(), for each name
KeywordsIn(player) ==
    CASE player = "MS Dhoni" -> {"dhoni"}
      [] player = "KL Rahul" -> {"rahul"}
      [] player = "CA Ingram" -> {"ingram"}
      [] OTHER -> {}

\* 05_build_feature_matrix.WK_KEYWORDS
WK_KEYWORDS_MATRIX ==
    {"dhoni", "pant", "karthik", "buttler", "de kock", "ingram", "bairstow"}
\* WK_KEYWORDS of 08 get_player_role and of predict_engine
WK_KEYWORDS ==
    {"dhoni", "pant", "karthik", "buttler", "de kock", "bairstow", "rahul"}

\* any(kw in player.lower() for kw in keywords)
IsWkName(player, keywords) == KeywordsIn(player) \cap keywords # {}

\* assign_roles: b_row.iloc[0]["total_innings"] >= 3
ALL_MIN_INNINGS == 3

\* assign_roles: the role of one (player, format) key of all_players
AssignedRole(player, fmt, bat, bowl) ==
    LET is_bat == <<player, fmt>> \in bat
        b_row == {r \in bowl : r.player = player /\ r.match_format = fmt}
        is_bowl == b_row # {}
    IN  IF IsWkName(player, WK_KEYWORDS_MATRIX) THEN "WK"
        ELSE IF is_bat /\ is_bowl
             THEN IF \E r \in b_row : r.total_innings >= ALL_MIN_INNINGS
                  THEN "ALL" ELSE "BAT"
        ELSE IF is_bat THEN "BAT"
        ELSE IF is_bowl THEN "BOWL"
        ELSE "BAT"

\* assign_roles: one row per key of bat_players | bowl_players
assign_roles(bat, bowl) ==
    LET all_players ==
            bat \cup {<<r.player, r.match_format>> : r \in bowl}
    IN  { [player |-> k[1], match_format |-> k[2],
           role |-> AssignedRole(k[1], k[2], bat, bowl)] : k \in all_players }

\* base.merge(roles, how="left"); base["role"].fillna("BAT")
JoinRole(r, table) ==
    LET hit == {t \in table : t.player = r.player
                                /\ t.match_format = r.match_format}
    IN  [player |-> r.player, match_format |-> r.match_format,
         pitch_type |-> r.pitch_type,
         role |-> IF hit = {} THEN "BAT" ELSE (CHOOSE t \in hit : TRUE).role]

\* The category names in the order Python compares strings
StrOrder ==
    <<"ALL", "BAT", "BOWL", "WK", "balanced", "flat", "odi", "pace", "seam",
      "spin", "t20", "test">>

\* LabelEncoder.fit: classes_ is the sorted list of the values observed
Classes(values) == SelectSeq(StrOrder, LAMBDA v : v \in values)

\* LabelEncoder.transform: the position of the value in classes_
LabelCode(classes, v) == (CHOOSE k \in 1..Len(classes) : classes[k] = v) - 1

Column(rows, col) == {rows[i][col] : i \in 1..Len(rows)}

\* encode_and_impute: the encoders fitted on the whole matrix
FitEncoders(rows) ==
    [match_format |-> Classes(Column(rows, "match_format")),
     pitch_type |-> Classes(Column(rows, "pitch_type")),
     role |-> Classes(Column(rows, "role"))]

\* encode_and_impute: df[col + "_enc"] = le.fit_transform(df[col])
Encode(r, enc) ==
    [player |-> r.player, match_format |-> r.match_format,
     pitch_type |-> r.pitch_type, role |-> r.role,
     match_format_enc |-> LabelCode(enc.match_format, r.match_format),
     pitch_type_enc |-> LabelCode(enc.pitch_type, r.pitch_type),
     role_enc |-> LabelCode(enc.role, r.role)]

\* get_player_role / _get_role on the profile tables
PredictedRole(player, fmt, bat, bowl) ==
    GetPlayerRole(IsWkName(player, WK_KEYWORDS),
                  <<player, fmt>> \in bat,
                  \E r \in bowl : r.player = player /\ r.match_format = fmt)

\* build_player_feature_row / _build_feature_row: role and the three codes
PredictionCodes(player, fmt, pitch, bat, bowl) ==
    LET role == PredictedRole(player, fmt, bat, bowl)
    IN  [role |-> role,
         match_format_enc |-> Get(FORMAT_ENC, fmt, 2),
         pitch_type_enc |-> Get(PITCH_ENC, Lower(pitch), 0),
         role_enc |-> Get(ROLE_ENC, role, 0)]

EncPitches == {"flat", "spin"}

\* The impact rows of the matrix, and for the (player, format) of each row
\* whether the aggregators wrote a batting and a bowling profile for it; a
\* bowling profile row has at least MIN_BOWLING_INNINGS innings.
InitEnc ==
    /\ PipeIdle
    /\ DecayIdle
    /\ AggIdle
    /\ SplitIdle
    /\ FeatIdle
    /\ FormIdle
    /\ JustIdle
    /\ ImpIdle
    /\ EngIdle
    /\ SesIdle
    /\ enc_pc = "profiles"
    /\ \E pl \in [1..MaxEncRows -> EncPlayers],
          fm \in [1..MaxEncRows -> MatrixFormats],
          pt \in [1..MaxEncRows -> EncPitches],
          hb \in [1..MaxEncRows -> BOOLEAN],
          hw \in [1..MaxEncRows -> BOOLEAN] :
          /\ base = [i \in 1..MaxEncRows |->
                        [player |-> pl[i], match_format |-> fm[i],
                         pitch_type |-> pt[i]]]
          /\ batting = {<<pl[i], fm[i]>> : i \in {j \in 1..MaxEncRows : hb[j]}}
          /\ bowling = {[player |-> pl[i], match_format |-> fm[i],
                         total_innings |-> MIN_BOWLING_INNINGS] :
                           i \in {j \in 1..MaxEncRows : hw[j]}}
    /\ role_table = {}
    /\ encoders = <<>>
    /\ asked = 0
    /\ inferred = <<>>

\* build_matrix: roles = assign_roles(batting, bowling), joined on
\* (player, match_format), missing roles filled with "BAT"
AssignRolesJoin ==
    /\ enc_pc = "profiles"
    /\ role_table' = assign_roles(batting, bowling)
    /\ base' = [i \in 1..Len(base) |->
                   JoinRole(base[i], assign_roles(batting, bowling))]
    /\ enc_pc' = "joined"
    /\ UNCHANGED <<batting, bowling, encoders, asked, inferred>>
    /\ UNCHANGED <<pipeVars, decayVars, aggVars, splitVars, featVars,
                  formVars, justVars, impVars, engVars, sesVars>>

\* 05 main: matrix, encoders = encode_and_impute(matrix)
EncodeAndImpute ==
    /\ enc_pc = "joined"
    /\ encoders' = FitEncoders(base)
    /\ base' = [i \in 1..Len(base) |-> Encode(base[i], FitEncoders(base))]
    /\ enc_pc' = "encoded"
    /\ UNCHANGED <<batting, bowling, role_table, asked, inferred>>
    /\ UNCHANGED <<pipeVars, decayVars, aggVars, splitVars, featVars,
                  formVars, justVars, impVars, engVars, sesVars>>

\* predict_squad / predict_engine.predict for the player, format and pitch
\* type of one matrix row, on the same profile tables
BuildPlayerFeatureRow ==
    /\ enc_pc = "encoded"
    /\ \E i \in 1..Len(base) :
          /\ asked' = i
          /\ inferred' = PredictionCodes(base[i].player, base[i].match_format,
                                         base[i].pitch_type, batting, bowling)
    /\ enc_pc' = "predicted"
    /\ UNCHANGED <<batting, bowling, role_table, base, encoders>>
    /\ UNCHANGED <<pipeVars, decayVars, aggVars, splitVars, featVars,
                  formVars, justVars, impVars, engVars, sesVars>>

NextEnc ==
    \/ AssignRolesJoin
    \/ EncodeAndImpute
    \/ BuildPlayerFeatureRow

SpecEnc == InitEnc /\ [][NextEnc]_vars

\* C22: every category the training encoders know has the code the
\* prediction-time maps give it.
C22_SameCodes ==
    enc_pc \in {"encoded", "predicted"} =>
        /\ \A v \in Range(encoders.match_format) :
              LabelCode(encoders.match_format, v) = Get(FORMAT_ENC, v, 2)
        /\ \A v \in Range(encoders.pitch_type) :
              LabelCode(encoders.pitch_type, v) = Get(PITCH_ENC, Lower(v), 0)
        /\ \A v \in Range(encoders.role) :
              LabelCode(encoders.role, v) = Get(ROLE_ENC, v, 0)

\* C29: the role the matrix row of a player carries is the role the
\* predictor infers for that player and format from the same profile tables.
C29_SameRole ==
    enc_pc = "predicted" => inferred.role = base[asked].role

\* ------------------------------------------- blend weight tuning (06)
\* C23: no row whose label tunes the blend weight is a row the two
\* regressors were fitted on (the final fit is the last entry of evals).
C23_TunedOnHeldOutRows ==
    split_pc = "trained" =>
        /\ tuned # <<>>
        /\ Ids(tuned) \cap Ids(evals[Len(evals)].tr) = {}

\* --------------------------------- form windows and ratios of a group (04)
FORM_SHORT_WINDOW == 5
FORM_LONG_WINDOW == 15
DECAY_HALF_LIFE_DAYS == 180

\* Most innings rows of the group
MaxInnings == 6

\* Match dates, as day numbers
FormDates == {180, 360}

\* The innings row of match m: the group keys are sorted, so the rows come
\* in match_id order. The batter faced one legal ball and was dismissed for
\* 0 or hit a four; the bowler bowled one ball and took a wicket for 0 or
\* conceded four. runs / balls / outs stand for runs_conceded /
\* balls_bowled / wickets in a bowling row.
InningsRow(m, date, out) ==
    [match_id |-> m, date |-> date, runs |-> IF out THEN 0 ELSE 4,
     balls |-> 1, outs |-> IF out THEN 1 ELSE 0]

\* sort_values("date") has kind="quicksort", which is not stable: rows of
\* equal date come out in an order the algorithm picks. Two outcomes are
\* kept: tied rows in their input order, tied rows in reverse.
TieOrders == {"kept", "reversed"}

FormBefore(rows, i, j, tie_order) ==
    \/ rows[i].date < rows[j].date
    \/ /\ rows[i].date = rows[j].date
       /\ IF tie_order = "kept" THEN i < j ELSE i > j

SortValuesDate(rows, tie_order) ==
    [k \in 1..Len(rows) |->
        rows[CHOOSE i \in 1..Len(rows) :
                Cardinality({j \in 1..Len(rows) :
                                FormBefore(rows, j, i, tie_order)}) = k - 1]]

\* DataFrame.tail(n)
TailRows(rows, n) == SubSeq(rows, Max(Len(rows) - n + 1, 1), Len(rows))

\* Denominators are kept exactly, in twelfths (overs are sixths of a ball
\* count, decay weights are 1 or 1/2 on FormDates): [q, eps] stands for
\* q/12 + eps * 1e-9.
Den(q, eps) == [q |-> q, eps |-> eps]
DenIsZero(d) == d.q = 0 /\ d.eps = 0
DenIsOne(d) == d.q = 12 /\ d.eps = 0

\* max(d, 1) and Series.clip(lower=1)
FloorOne_None(d) == d
FloorOne(d) == Den(Max(d.q, 12), d.eps)
\* d + 1e-9
PlusEps(d) == Den(d.q, 1)

\* the decay weight 2^(-num/den) in halves
WeightHalves(w) == 2 \div (2 ^ (w.num \div w.den))

RECURSIVE SumCol(_, _)
SumCol(rows, col) ==
    IF rows = <<>> THEN 0 ELSE Head(rows)[col] + SumCol(Tail(rows), col)

\* (grp_df[col] * w).sum(), in halves; ref_date is the latest date
RECURSIVE WeightedSum(_, _, _)
WeightedSum(rows, col, ref) ==
    IF rows = <<>> THEN 0
    ELSE Head(rows)[col]
            * WeightHalves(DecayWeight(DaysAgo(Head(rows).date, ref),
                                       DECAY_HALF_LIFE_DAYS))
         + WeightedSum(Tail(rows), col, ref)

MaxDate(rows) ==
    CHOOSE d \in {rows[i].date : i \in 1..Len(rows)} :
        \A i \in 1..Len(rows) : rows[i].date <= d

\* a count, a weighted count, overs (count / 6), weighted overs
Count(rows, col) == Den(12 * SumCol(rows, col), 0)
WCount(rows, col) == Den(6 * WeightedSum(rows, col, MaxDate(rows)), 0)
Overs(rows) == Den(2 * SumCol(rows, "balls"), 0)
WOvers(rows) == Den(WeightedSum(rows, "balls", MaxDate(rows)), 0)

\* one division: its name (with the match id of a per-innings division, 0
\* otherwise), the denominator as aggregated and as divided by
Ratio(name, raw, used) == [name |-> name, raw |-> raw, used |-> used]

MatchIds(rows) == [i \in 1..Len(rows) |-> rows[i].match_id]

\* the per-innings divisions, made before the groups are iterated:
\* innings["strike_rate"]; innings["economy"] and innings["bowl_avg"]
InningsRatios(kind, all_rows) ==
    IF kind = "bat"
    THEN {Ratio(<<"strike_rate", all_rows[i].match_id>>,
                Count(<<all_rows[i]>>, "balls"),
                FloorOne(Count(<<all_rows[i]>>, "balls"))) :
                    i \in 1..Len(all_rows)}
    ELSE {Ratio(<<"economy", all_rows[i].match_id>>,
                Overs(<<all_rows[i]>>), Overs(<<all_rows[i]>>)) :
                    i \in 1..Len(all_rows)}
         \cup
         {Ratio(<<"bowl_avg", all_rows[i].match_id>>,
                Count(<<all_rows[i]>>, "outs"),
                FloorOne(Count(<<all_rows[i]>>, "outs"))) :
                    i \in 1..Len(all_rows)}

\* the divisions of build_batting_profiles for one group
BattingRatios(grp) ==
    LET s == TailRows(grp, FORM_SHORT_WINDOW)
        l == TailRows(grp, FORM_LONG_WINDOW)
    IN  {Ratio(<<"career_avg", 0>>, Count(grp, "outs"), FloorOne(Count(grp, "outs"))),
         Ratio(<<"career_sr", 0>>, Count(grp, "balls"),
               FloorOne(Count(grp, "balls"))),
         Ratio(<<"form_sr_short", 0>>, Count(s, "balls"), FloorOne(Count(s, "balls"))),
         Ratio(<<"form_avg_short", 0>>, Count(s, "outs"), FloorOne(Count(s, "outs"))),
         Ratio(<<"form_sr_long", 0>>, Count(l, "balls"), FloorOne(Count(l, "balls"))),
         Ratio(<<"form_avg_long", 0>>, Count(l, "outs"), FloorOne(Count(l, "outs"))),
         Ratio(<<"weighted_avg", 0>>, WCount(grp, "outs"),
               FloorOne(WCount(grp, "outs"))),
         Ratio(<<"weighted_sr", 0>>, WCount(grp, "balls"),
               FloorOne(WCount(grp, "balls"))),
         Ratio(<<"sr_on_pitch", 0>>, Count(grp, "balls"),
               FloorOne(Count(grp, "balls")))}

\* the divisions of build_bowling_profiles for one group
BowlingRatios(grp) ==
    LET s == TailRows(grp, FORM_SHORT_WINDOW)
        l == TailRows(grp, FORM_LONG_WINDOW)
    IN  (IF SumCol(grp, "balls") # 0
         THEN {Ratio(<<"career_economy", 0>>, Overs(grp), Overs(grp))} ELSE {})
        \cup
        {Ratio(<<"career_avg", 0>>, Count(grp, "outs"), FloorOne(Count(grp, "outs"))),
         Ratio(<<"career_sr", 0>>, Count(grp, "outs"), FloorOne(Count(grp, "outs"))),
         Ratio(<<"form_eco_short", 0>>, Overs(s), PlusEps(Overs(s))),
         Ratio(<<"form_eco_long", 0>>, Overs(l), PlusEps(Overs(l))),
         Ratio(<<"weighted_eco", 0>>, WOvers(grp), PlusEps(WOvers(grp))),
         Ratio(<<"weighted_avg", 0>>, WCount(grp, "outs"),
               FloorOne(WCount(grp, "outs"))),
         Ratio(<<"eco_on_pitch", 0>>, Overs(grp), PlusEps(Overs(grp)))}

\* the profile row of a group: the rows of the two windows and the divisions
FormProfile(kind, all_rows, grp) ==
    [recent_s |-> MatchIds(TailRows(grp, FORM_SHORT_WINDOW)),
     recent_l |-> MatchIds(TailRows(grp, FORM_LONG_WINDOW)),
     ratios |-> InningsRatios(kind, all_rows)
                    \cup (IF kind = "bat" THEN BattingRatios(grp)
                          ELSE BowlingRatios(grp))]

FormMin(kind) ==
    IF kind = "bat" THEN MIN_BATTING_INNINGS ELSE MIN_BOWLING_INNINGS

InitForm ==
    /\ PipeIdle
    /\ DecayIdle
    /\ AggIdle
    /\ SplitIdle
    /\ FeatIdle
    /\ EncIdle
    /\ JustIdle
    /\ ImpIdle
    /\ EngIdle
    /\ SesIdle
    /\ form_pc = "group"
    /\ form_kind \in {"bat", "bowl"}
    /\ \E n \in (MIN_BATTING_INNINGS - 1)..MaxInnings :
          \E ds \in [1..n -> FormDates], out \in [1..n -> BOOLEAN] :
              form_rows = [m \in 1..n |-> InningsRow(m, ds[m], out[m])]
    /\ form_sorted = <<>>
    /\ form_profile = <<>>

\* one iteration of the loop over innings.groupby([player, match_format]):
\* sort, skip a group below the minimum, else append its profile row
BuildGroupProfile ==
    /\ form_pc = "group"
    /\ \E tie_order \in TieOrders :
          LET grp == SortValuesDate(form_rows, tie_order)
          IN  /\ form_sorted' = grp
              /\ form_profile' =
                     IF TooFewInnings(Len(grp), FormMin(form_kind))
                     THEN [recent_s |-> <<>>, recent_l |-> <<>>,
                           ratios |-> InningsRatios(form_kind, form_rows)]
                     ELSE FormProfile(form_kind, form_rows, grp)
    /\ form_pc' = "done"
    /\ UNCHANGED <<form_kind, form_rows>>
    /\ UNCHANGED <<pipeVars, decayVars, aggVars, splitVars, featVars,
                  encVars, justVars, impVars, engVars, sesVars>>

NextForm == BuildGroupProfile

SpecForm == InitForm /\ [][NextForm]_vars

\* The last min(n, count) rows of the group in the order by date, ties
\* broken by match id
EventBefore(rows, i, j) ==
    \/ rows[i].date < rows[j].date
    \/ rows[i].date = rows[j].date /\ rows[i].match_id < rows[j].match_id

MostRecent(rows, n) ==
    {rows[i].match_id : i \in {k \in 1..Len(rows) :
        Cardinality({j \in 1..Len(rows) : EventBefore(rows, k, j)}) < n}}

\* C24: the short and the long window hold exactly the min(N, count) most
\* recent rows of the group by (date, match id).
C24_WindowsAreMostRecent ==
    (form_pc = "done" /\ form_profile.recent_l # <<>>) =>
        /\ Range(form_profile.recent_s)
               = MostRecent(form_rows, FORM_SHORT_WINDOW)
        /\ Range(form_profile.recent_l)
               = MostRecent(form_rows, FORM_LONG_WINDOW)

\* C25: no division has a zero denominator, and a denominator that
\* aggregates to zero is divided by as 1.
C25_DenominatorsFloored ==
    form_pc = "done" =>
        \A r \in form_profile.ratios :
            /\ ~DenIsZero(r.used)
            /\ DenIsZero(r.raw) => DenIsOne(r.used)

\* a batting group without a dismissal and a bowling group without a
\* wicket, each with a profile row
C25_Witness ==
    /\ form_pc = "done"
    /\ form_profile.recent_l # <<>>
    /\ \E r \in form_profile.ratios :
          r.name = <<"career_avg", 0>> /\ DenIsZero(r.raw) /\ DenIsOne(r.used)
    /\ \E r \in form_profile.ratios :
          r.name = <<"weighted_avg", 0>> /\ DenIsZero(r.raw) /\ DenIsOne(r.used)

\* ------------------------------------------- generate_justification (08)
\* A reason: its kind, its place in the order of collection, and the
\* context_stats entries its text is formatted from.
Reason(kind, prio, uses) == [kind |-> kind, prio |-> prio, uses |-> uses]

\* stats.get(key, 0) or 0: a missing key, None and 0 give 0; NaN stays NaN
StatOf(stats, key) == Get(stats, key, 0)

\* v > 0, false for NaN
Positive(v) == ~IsNaN(v) /\ v > 0
\* ka * a > kb * b, false when either side is NaN
GtScaled(a, ka, b, kb) == ~IsNaN(a) /\ ~IsNaN(b) /\ ka * a > kb * b

\* {"t20": 8.0, "odi": 5.5, "test": 3.0}.get(match_format, 8.0), in tenths
FormatAvgEco(fmt) ==
    Get([t20 |-> 80, odi |-> 55, test |-> 30], fmt, 80)

\* the batting block: form_sr > sr * 1.10, pitch_sr > sr * 1.10
BattingReasons(role, stats) ==
    LET sr == StatOf(stats, "career_sr")
        avg == StatOf(stats, "career_avg_bat")
        form_sr == StatOf(stats, "form_sr_short")
        pitch_sr == StatOf(stats, "batter_sr_this_pitch")
    IN  IF role \notin {"BAT", "WK", "ALL"} THEN <<>>
        ELSE (IF GtScaled(form_sr, 10, sr, 11) /\ Positive(form_sr)
              THEN <<Reason("form_sr", 1, {"form_sr_short", "career_sr"})>>
              ELSE IF Positive(sr)
                   THEN <<Reason("career_sr", 1, {"career_sr"})>>
                   ELSE <<>>)
             \o (IF Positive(avg)
                 THEN <<Reason("career_avg", 2, {"career_avg_bat"})>>
                 ELSE <<>>)
             \o (IF GtScaled(pitch_sr, 10, sr, 11) /\ Positive(pitch_sr)
                 THEN <<Reason("pitch_sr", 3, {"batter_sr_this_pitch"})>>
                 ELSE <<>>)

\* the bowling block: f_eco < eco * 0.90, p_eco < format_avg_eco; the
\* economies are in tenths
BowlingReasons(role, stats, fmt) ==
    LET eco == StatOf(stats, "career_economy")
        wkts == StatOf(stats, "career_wickets")
        f_eco == StatOf(stats, "form_eco_short")
        p_eco == StatOf(stats, "bowler_eco_this_pitch")
    IN  IF role \notin {"BOWL", "ALL"} THEN <<>>
        ELSE (IF Positive(f_eco) /\ GtScaled(eco, 9, f_eco, 10)
              THEN <<Reason("form_eco", 4, {"form_eco_short",
                                            "career_economy"})>>
              ELSE IF Positive(eco)
                   THEN <<Reason("career_eco", 4, {"career_economy"})>>
                   ELSE <<>>)
             \o (IF Positive(p_eco) /\ GtScaled(FormatAvgEco(fmt), 1, p_eco, 1)
                 THEN <<Reason("pitch_eco", 5, {"bowler_eco_this_pitch"})>>
                 ELSE <<>>)
             \o (IF Positive(wkts)
                 THEN <<Reason("wickets", 6, {"career_wickets"})>>
                 ELSE <<>>)

VenueReasons(role, stats) ==
    IF Positive(StatOf(stats, "avg_first_innings_score"))
          /\ role \in {"BAT", "WK", "ALL"}
    THEN <<Reason("venue", 7, {"avg_first_innings_score"})>>
    ELSE <<>>

WkReasons(role) ==
    IF role = "WK" THEN <<Reason("wk_cover", 8, {})>> ELSE <<>>

\* the reasons list, with the generic reason appended to an empty list
CollectReasons(role, stats, fmt) ==
    LET found == BattingReasons(role, stats) \o BowlingReasons(role, stats, fmt)
                     \o VenueReasons(role, stats) \o WkReasons(role)
    IN  IF found = <<>> THEN <<Reason("generic", 9, {})>> ELSE found

\* the sentence: reasons[0]; reasons[0] and reasons[1]; or the first three
Rendered_All(rs) == rs
Rendered(rs) == Take(rs, 3)

JustRoles == {"BAT", "BOWL", "ALL", "WK"}

\* context_stats of a candidate. A strike rate of the last five innings is
\* positive only if the career strike rate is (same profile row); the
\* batting average is NaN when the feature list lacks the column.
JustStats ==
    { s \in [career_sr : {0, 100}, form_sr_short : {0, 100, 120},
             career_avg_bat : {NaN, 0, 30}, batter_sr_this_pitch : {0, 120},
             career_economy : {0, 80}, form_eco_short : {0, 70},
             bowler_eco_this_pitch : {0, 70, 90}, career_wickets : {0, 10},
             avg_first_innings_score : {0, 160}] :
        /\ s.form_sr_short > 0 => s.career_sr > 0
        /\ s.batter_sr_this_pitch > 0 => s.career_sr > 0
        /\ s.form_eco_short > 0 <=> s.career_economy > 0 }

InitJust ==
    /\ PipeIdle
    /\ DecayIdle
    /\ AggIdle
    /\ SplitIdle
    /\ FeatIdle
    /\ EncIdle
    /\ FormIdle
    /\ ImpIdle
    /\ EngIdle
    /\ SesIdle
    /\ just_pc = "call"
    /\ \E role \in JustRoles, s \in JustStats :
          just_player = [role |-> role, context_stats |-> s]
    /\ just_format \in FormatInputs
    /\ reasons = <<>>
    /\ justification = <<>>

GenerateJustification ==
    /\ just_pc = "call"
    /\ reasons' = CollectReasons(just_player.role, just_player.context_stats,
                                 just_format)
    /\ justification' =
           Rendered(CollectReasons(just_player.role,
                                   just_player.context_stats, just_format))
    /\ just_pc' = "done"
    /\ UNCHANGED <<just_player, just_format>>
    /\ UNCHANGED <<pipeVars, decayVars, aggVars, splitVars, featVars,
                  encVars, formVars, impVars, engVars, sesVars>>

NextJust == GenerateJustification

SpecJust == InitJust /\ [][NextJust]_vars

\* the context_stats entry is observed: present, not NaN, not zero
Observed(key) == Positive(StatOf(just_player.context_stats, key))

FeatureKinds ==
    {"form_sr", "career_sr", "career_avg", "pitch_sr", "form_eco",
     "career_eco", "pitch_eco", "wickets", "venue"}

HasKind(rs, kinds) == \E i \in 1..Len(rs) : rs[i].kind \in kinds

\* between one and three reasons, the first ones collected, in the order
\* of collection
RenderedInOrder ==
    /\ Len(justification) \in 1..3
    /\ justification = SubSeq(reasons, 1, Len(justification))
    /\ Len(justification) < 3 => justification = reasons
    /\ \A i, j \in 1..Len(reasons) :
          i < j => reasons[i].prio < reasons[j].prio

\* C26 as stated: every rendered reason is built from observed features,
\* and the generic sentence is rendered exactly when no feature qualifies.
C26_Original ==
    just_pc = "done" =>
        /\ RenderedInOrder
        /\ \A i \in 1..Len(justification) :
              \/ /\ justification[i].kind \in FeatureKinds
                 /\ \A k \in justification[i].uses : Observed(k)
              \/ justification[i].kind = "generic"
        /\ HasKind(justification, {"generic"})
              <=> ~HasKind(reasons, FeatureKinds)

\* C26: the sentence renders the first one to three reasons collected;
\* a rendered reason is built from observed features only, or is the
\* keeping cover of a WK, or is the generic reason; the generic reason is
\* rendered exactly when no feature qualifies and the role is not WK.
C26_ReasonsObservedOrRole ==
    just_pc = "done" =>
        /\ RenderedInOrder
        /\ \A i \in 1..Len(justification) :
              \/ /\ justification[i].kind \in FeatureKinds
                 /\ justification[i].uses # {}
                 /\ \A k \in justification[i].uses : Observed(k)
              \/ justification[i].kind = "wk_cover" /\ just_player.role = "WK"
              \/ justification[i].kind = "generic" /\ Len(reasons) = 1
        /\ HasKind(justification, {"generic"})
              <=> (~HasKind(reasons, FeatureKinds) /\ just_player.role # "WK")

\* a keeper without an observed feature: the keeping cover is the only
\* reason and the generic reason is not rendered
C26_Witness ==
    /\ just_pc = "done"
    /\ just_player.role = "WK"
    /\ Len(reasons) = 1
    /\ justification = <<Reason("wk_cover", 8, {})>>

\* --------------------------------------------- build_impact_scores (04)
\* Matches 1..MaxImpMatches of the log
MaxImpMatches == 3

ImpPlayers == <<"A", "B">>
\* match_format and date of a match: columns of the log, constant in a match
ImpFormat(m) == IF m = 1 THEN "odi" ELSE "t20"
ImpDate(m) == m
\* a missing match_format after the outer merge
NoFormat == "NaN"

Ball(batter, bowler, m, wide, runs_batter, runs_total, wicket) ==
    [batter |-> batter, bowler |-> bowler, match_id |-> m,
     match_format |-> ImpFormat(m), date |-> ImpDate(m), is_wide |-> wide,
     runs_batter |-> runs_batter, runs_total |-> runs_total,
     bowler_wicket |-> wicket]

\* What is logged of match m: nothing; A hits B for four; B has A caught;
\* B bowls a wide to A; A hits B for four and B hits A for six.
ImpPatterns == 0..4
ImpDeliveries(m, k) ==
    CASE k = 0 -> {}
      [] k = 1 -> {Ball("A", "B", m, 0, 4, 4, 0)}
      [] k = 2 -> {Ball("A", "B", m, 0, 0, 0, 1)}
      [] k = 3 -> {Ball("A", "B", m, 1, 0, 1, 0)}
      [] k = 4 -> {Ball("A", "B", m, 0, 4, 4, 0), Ball("B", "A", m, 0, 6, 6, 0)}

RECURSIVE SumOver(_, _)
SumOver(rows, col) ==
    IF rows = {} THEN 0
    ELSE LET r == CHOOSE e \in rows : TRUE
         IN  r[col] + SumOver(rows \ {r}, col)

\* format_bench, avg_sr and avg_eco in tenths
FormatBench(fmt) ==
    Get([t20 |-> [avg_sr |-> 1300, avg_eco |-> 80],
         odi |-> [avg_sr |-> 800, avg_eco |-> 55],
         test |-> [avg_sr |-> 500, avg_eco |-> 30]],
        fmt, [avg_sr |-> 1300, avg_eco |-> 80])

\* batting_score in tenths: max(runs + (strike_rate - avg_sr) * 0.2, 0),
\* strike_rate = runs / balls.clip(lower=1) * 100
BattingScore(fmt, runs, balls) ==
    Max(10 * runs
          + (2 * ((1000 * runs) \div Max(balls, 1)) - 2 * FormatBench(fmt).avg_sr)
                \div 10,
        0)

\* bowling_score in tenths: max(wickets * 25 + (avg_eco - economy) * overs
\* * 6, 0), economy = runs_conceded / overs: (avg_eco - economy) * overs * 6
\* is avg_eco * balls_bowled - 6 * runs_conceded
BowlingScore(fmt, wickets, runs_conceded, balls_bowled) ==
    Max(250 * wickets + FormatBench(fmt).avg_eco * balls_bowled
          - 60 * runs_conceded,
        0)

BatBalls(df, p, m) ==
    {d \in df : d.batter = p /\ d.match_id = m /\ d.is_wide = 0}
BowlBalls(df, p, m) == {d \in df : d.bowler = p /\ d.match_id = m}

\* bat_s.merge(bowl_s, on=["player", "match_id"], how="outer"): the keys of
\* either frame in sorted order; match_format and date come from bat_s
\* only; bat_score and bowl_score are filled with 0. The bowling score is
\* computed on the bowl frame, which has the format.
MergedRow(df, p, m) ==
    LET bb == BatBalls(df, p, m)
        wb == BowlBalls(df, p, m)
        bat_score == IF bb = {} THEN 0
                     ELSE BattingScore(ImpFormat(m), SumOver(bb, "runs_batter"),
                                       Cardinality(bb))
        bowl_score == IF wb = {} THEN 0
                      ELSE BowlingScore(ImpFormat(m),
                                        SumOver(wb, "bowler_wicket"),
                                        SumOver(wb, "runs_total"),
                                        Cardinality(wb))
    IN  [player |-> p, match_id |-> m,
         match_format |-> IF bb = {} THEN NoFormat ELSE ImpFormat(m),
         date |-> IF bb = {} THEN NaT ELSE ImpDate(m),
         raw_impact |-> bat_score + bowl_score,
         impact_score |-> NaN]

MergeKeys ==
    [k \in 1..(Len(ImpPlayers) * MaxImpMatches) |->
        <<ImpPlayers[((k - 1) \div MaxImpMatches) + 1],
          ((k - 1) % MaxImpMatches) + 1>>]

Merged(df) ==
    LET all_rows == [k \in 1..Len(MergeKeys) |->
                        MergedRow(df, MergeKeys[k][1], MergeKeys[k][2])]
    IN  Pick(all_rows,
             {k \in 1..Len(MergeKeys) :
                 \/ BatBalls(df, MergeKeys[k][1], MergeKeys[k][2]) # {}
                 \/ BowlBalls(df, MergeKeys[k][1], MergeKeys[k][2]) # {}})

\* the k-th smallest of the raw impacts at the indices S of rows
KthRaw(rows, S, k) ==
    rows[CHOOSE i \in S :
            Cardinality({j \in S : \/ rows[j].raw_impact < rows[i].raw_impact
                                   \/ /\ rows[j].raw_impact = rows[i].raw_impact
                                      /\ j < i}) = k - 1].raw_impact

\* 100 * vals.quantile(0.01) and 100 * vals.quantile(0.99), by linear
\* interpolation, for fewer than 100 values
QuantileLo(rows, S) ==
    LET n == Cardinality(S)
    IN  IF n = 1 THEN 100 * KthRaw(rows, S, 1)
        ELSE 100 * KthRaw(rows, S, 1)
               + (n - 1) * (KthRaw(rows, S, 2) - KthRaw(rows, S, 1))
QuantileHi(rows, S) ==
    LET n == Cardinality(S)
    IN  IF n = 1 THEN 100 * KthRaw(rows, S, 1)
        ELSE 100 * KthRaw(rows, S, n)
               - (n - 1) * (KthRaw(rows, S, n) - KthRaw(rows, S, n - 1))

\* ((vals - lo) / (hi - lo + 1e-9)).clip(0, 1) * 100, rounded to two
\* places, in hundredths
Clip01(num, den) ==
    IF num <= 0 THEN 0
    ELSE IF den = 0 \/ num >= den THEN 10000
    ELSE (10000 * num + den \div 2) \div den

Normalised(rows, i) ==
    IF rows[i].match_format = NoFormat THEN NaN
    ELSE LET S == {j \in 1..Len(rows) :
                      rows[j].match_format = rows[i].match_format}
         IN  Clip01(100 * rows[i].raw_impact - QuantileLo(rows, S),
                    QuantileHi(rows, S) - QuantileLo(rows, S))

\* sort_values(["date", "match_id", "impact_score"], ascending=[True, True,
\* False]): NaT and NaN last, equal keys in their order
ImpBefore(rows, i, j) ==
    \/ rows[i].date # NaT /\ rows[j].date = NaT
    \/ rows[i].date # NaT /\ rows[j].date # NaT /\ rows[i].date < rows[j].date
    \/ /\ rows[i].date = rows[j].date
       /\ \/ rows[i].match_id < rows[j].match_id
          \/ /\ rows[i].match_id = rows[j].match_id
             /\ \/ ~IsNaN(rows[i].impact_score) /\ IsNaN(rows[j].impact_score)
                \/ /\ ~IsNaN(rows[i].impact_score)
                   /\ rows[i].impact_score > rows[j].impact_score
                \/ rows[i].impact_score = rows[j].impact_score /\ i < j

SortImpacts(rows) ==
    [k \in 1..Len(rows) |->
        rows[CHOOSE i \in 1..Len(rows) :
                Cardinality({j \in 1..Len(rows) : ImpBefore(rows, j, i)})
                    = k - 1]]

WithScore(r, score) ==
    [player |-> r.player, match_id |-> r.match_id,
     match_format |-> r.match_format, date |-> r.date,
     raw_impact |-> r.raw_impact, impact_score |-> score]

InitImp ==
    /\ PipeIdle
    /\ DecayIdle
    /\ AggIdle
    /\ SplitIdle
    /\ FeatIdle
    /\ EncIdle
    /\ FormIdle
    /\ JustIdle
    /\ EngIdle
    /\ SesIdle
    /\ imp_pc = "log"
    /\ \E f \in [1..MaxImpMatches -> ImpPatterns] :
          imp_log = UNION {ImpDeliveries(m, f[m]) : m \in 1..MaxImpMatches}
    /\ imp_scores = <<>>

\* build_impact_scores. When no merged row has a match format the loop
\* over the formats assigns nothing and merged["impact_score"] raises
\* KeyError.
BuildImpacts ==
    /\ imp_pc = "log"
    /\ LET rows == Merged(imp_log)
       IN  IF \A i \in 1..Len(rows) : rows[i].match_format = NoFormat
           THEN /\ imp_pc' = "error"
                /\ UNCHANGED imp_scores
           ELSE /\ imp_scores' =
                       SortImpacts([i \in 1..Len(rows) |->
                                       WithScore(rows[i], Normalised(rows, i))])
                /\ imp_pc' = "done"
    /\ UNCHANGED imp_log
    /\ UNCHANGED <<pipeVars, decayVars, aggVars, splitVars, featVars,
                  encVars, formVars, justVars, engVars, sesVars>>

NextImp == BuildImpacts

SpecImp == InitImp /\ [][NextImp]_vars

ImpRowsOf(p, m) ==
    {i \in 1..Len(imp_scores) :
        imp_scores[i].player = p /\ imp_scores[i].match_id = m}

\* C27: every player who batted or bowled in a match has one row, with a
\* match format, a date and an impact score in [0, 100].
C27_EveryRowScored ==
    imp_pc = "done" =>
        \A k \in 1..Len(MergeKeys) :
            LET p == MergeKeys[k][1]
                m == MergeKeys[k][2]
            IN  (\E d \in imp_log :
                     d.match_id = m /\ (d.batter = p \/ d.bowler = p))
                => /\ Cardinality(ImpRowsOf(p, m)) = 1
                   /\ \A i \in ImpRowsOf(p, m) :
                         /\ imp_scores[i].match_format = ImpFormat(m)
                         /\ imp_scores[i].date = ImpDate(m)
                         /\ imp_scores[i].impact_score \in 0..10000

\* ------------------------------------------- predict_engine.predict
\* A squad that fills the default constraints exactly: four batters, a
\* keeper, two all-rounders, four bowlers; and a twelfth name.
EngBase ==
    <<"B1", "B2", "B3", "B4", "W1", "A1", "A2", "O1", "O2", "O3", "O4">>
EngExtra == "N1"

\* _get_role: the role is a function of the name and the profile tables
EngRole(name) ==
    CASE name \in {"W1"} -> "WK"
      [] name \in {"A1", "A2"} -> "ALL"
      [] name \in {"O1", "O2", "O3", "O4"} -> "BOWL"
      [] OTHER -> "BAT"

\* Tables of ensemble scores, in hundredths of a score point: all equal;
\* the batters lowest; the bowlers lowest.
EngScoreTables == 1..3
EngScore(name, table) ==
    CASE table = 1 -> 2004
      [] table = 2 -> (IF EngRole(name) = "BAT" THEN 2004 ELSE 4004)
      [] OTHER -> (IF EngRole(name) = "BOWL" THEN 2004 ELSE 4004)

\* The squads: the base squad without its last name, the base squad, and
\* the base squad followed by a new name or by a name it already holds
EngSquads ==
    {SubSeq(EngBase, 1, Len(EngBase) - 1), EngBase, Append(EngBase, EngExtra)}
      \cup {Append(EngBase, EngBase[i]) : i \in 1..Len(EngBase)}

\* round(v, 1) of hundredths, in tenths
Round1(v) == (v + 5) \div 10
\* round(v, 1) of a confidence bound (1 / (100 * PctScale)), in tenths
RoundBound(v) == (v + 5 * PctScale) \div (10 * PctScale)

\* to_dict
ToDict(c, selected_names) ==
    [name |-> c.name, role |-> c.role, score |-> Round1(c.predicted_score),
     confidence_lo |-> RoundBound(c.confidence_lo),
     confidence_hi |-> RoundBound(c.confidence_hi),
     selected |-> c.name \in selected_names]

\* sorted(..., key=lambda x: -x["score"])
ScoreBefore(ps, i, j) ==
    \/ ps[i].score > ps[j].score
    \/ ps[i].score = ps[j].score /\ i < j

\* {"BAT": 0, "WK": 1, "ALL": 2, "BOWL": 3}.get(x["role"], 4)
XiRoleOrder(role) ==
    CASE role = "BAT" -> 0 [] role = "WK" -> 1 [] role = "ALL" -> 2
      [] role = "BOWL" -> 3 [] OTHER -> 4

\* sorted(..., key=lambda x: (role order, -x["score"]))
XiBefore(ps, i, j) ==
    \/ XiRoleOrder(ps[i].role) < XiRoleOrder(ps[j].role)
    \/ /\ XiRoleOrder(ps[i].role) = XiRoleOrder(ps[j].role)
       /\ ScoreBefore(ps, i, j)

AllPlayers(cands, selected_names) ==
    LET ds == [i \in 1..Len(cands) |-> ToDict(cands[i], selected_names)]
    IN  [k \in 1..Len(ds) |->
            ds[CHOOSE i \in 1..Len(ds) :
                  Cardinality({j \in 1..Len(ds) : ScoreBefore(ds, j, i)})
                      = k - 1]]

SelectedXi(all_players) ==
    LET ps == Pick(all_players,
                   {i \in 1..Len(all_players) : all_players[i].selected})
    IN  [k \in 1..Len(ps) |->
            ps[CHOOSE i \in 1..Len(ps) :
                  Cardinality({j \in 1..Len(ps) : XiBefore(ps, j, i)})
                      = k - 1]]

\* candidates = add_confidence_intervals([PlayerCandidate(...) for name])
EngCandidates(squad, table) ==
    [i \in 1..Len(squad) |->
        WithInterval(PlayerCandidate(squad[i], EngRole(squad[i]),
                                     EngScore(squad[i], table), FALSE, <<>>))]

\* the dict predict returns for a selection
EngResult(cands, sel) ==
    LET all_players == AllPlayers(cands, NameSet(sel.players))
    IN  [all_players |-> all_players,
         selected_xi |-> SelectedXi(all_players),
         status |-> sel.status,
         total_score |-> Round1(sel.total_score)]

InitEng ==
    /\ PipeIdle
    /\ DecayIdle
    /\ AggIdle
    /\ SplitIdle
    /\ FeatIdle
    /\ EncIdle
    /\ FormIdle
    /\ JustIdle
    /\ ImpIdle
    /\ SesIdle
    /\ eng_pc = "call"
    /\ eng_squad \in EngSquads
    /\ eng_scores \in EngScoreTables
    /\ eng_selection = <<>>
    /\ eng_result = <<>>

\* predict: candidates, select_xi(candidates, TeamConstraints()), the dict
EnginePredict ==
    /\ eng_pc = "call"
    /\ LET cands == EngCandidates(eng_squad, eng_scores)
           cons == DefaultConstraints
       IN  IF TooSmall(Len(cands), cons)
           THEN LET sel == TeamSelection(<<>>, 0, 0, 0, 0, 0, "Infeasible")
                IN  /\ eng_selection' = sel
                    /\ eng_result' = EngResult(cands, sel)
           ELSE \E out \in SolverOutcomes(cands, cons) :
                   LET sel == BuildSelection(
                                  Selected(cands, cons, out.status, out.x),
                                  out.status)
                   IN  /\ eng_selection' = sel
                       /\ eng_result' = EngResult(cands, sel)
    /\ eng_pc' = "done"
    /\ UNCHANGED <<eng_squad, eng_scores>>
    /\ UNCHANGED <<pipeVars, decayVars, aggVars, splitVars, featVars,
                  encVars, formVars, justVars, impVars, sesVars>>

NextEng == EnginePredict

SpecEng == InitEng /\ [][NextEng]_vars

RECURSIVE SumEntryScores(_)
SumEntryScores(ps) ==
    IF ps = <<>> THEN 0 ELSE Head(ps).score + SumEntryScores(Tail(ps))

\* C28: selected_xi has one entry per player of the selection: team_size
\* entries when the squad has at least team_size names and none otherwise,
\* and total_score is the sum of the scores of its entries.
C28_SelectedXiIsSelection ==
    eng_pc = "done" =>
        /\ Len(eng_result.selected_xi) = Len(eng_selection.players)
        /\ Len(eng_result.selected_xi) =
               (IF Len(eng_squad) >= DefaultConstraints.team_size
                THEN DefaultConstraints.team_size ELSE 0)
        /\ \A i \in 1..Len(eng_result.all_players) :
              eng_result.all_players[i].selected
                  <=> eng_result.all_players[i].name
                          \in NameSet(eng_selection.players)
        /\ eng_result.total_score = SumEntryScores(eng_result.selected_xi)

\* ------------------------------------- sessions (backend/database.py)
\* timedelta(hours=24)
SESSION_TTL_HOURS == 24
\* Sessions created, and steps of SESSION_TTL_HOURS the clock advances
MaxTokens == 2
MaxTicks == 2

SesUsers == {"u1", "u2"}
\* a bearer token no create_session call returned
ForgedToken == 0

\* "DELETE FROM sessions WHERE token = ?"
DeleteSession_None(rows, t) == rows
DeleteSession(rows, t) == {r \in rows : r.token # t}

\* "SELECT * FROM sessions WHERE token = ?", fetchone(): <<>> or <<row>>
SelectSession(rows, t) ==
    IF \E r \in rows : r.token = t
    THEN <<CHOOSE r \in rows : r.token = t>>
    ELSE <<>>

\* datetime.fromisoformat(row["expires_at"]) < datetime.utcnow()
Expired(r, now) == r.expires_at < now

\* the tokens a client can present: those issued, and a forged one
Presentable == {ForgedToken} \cup 1..issued

InitSes ==
    /\ PipeIdle
    /\ DecayIdle
    /\ AggIdle
    /\ SplitIdle
    /\ FeatIdle
    /\ EncIdle
    /\ FormIdle
    /\ JustIdle
    /\ ImpIdle
    /\ EngIdle
    /\ ses_pc = "serving"
    /\ sessions = {}
    /\ clock = 0
    /\ issued = 0
    /\ revoked = {}
    /\ lookup = <<>>
    /\ answer = <<>>

\* POST /auth/login with valid credentials: create_session inserts a row
\* under a fresh token (secrets.token_hex(32))
Login ==
    /\ ses_pc = "serving"
    /\ issued < MaxTokens
    /\ \E u \in SesUsers :
          sessions' = sessions \cup
              {[token |-> issued + 1, username |-> u,
                expires_at |-> clock + SESSION_TTL_HOURS]}
    /\ issued' = issued + 1
    /\ UNCHANGED <<ses_pc, clock, revoked, lookup, answer>>
    /\ UNCHANGED <<pipeVars, decayVars, aggVars, splitVars, featVars,
                  encVars, formVars, justVars, impVars, engVars>>

\* POST /auth/logout with a bearer token: delete_session(token)
Logout ==
    /\ ses_pc = "serving"
    /\ \E t \in Presentable :
          /\ sessions' = DeleteSession(sessions, t)
          /\ revoked' = revoked \cup {t}
    /\ UNCHANGED <<ses_pc, clock, issued, lookup, answer>>
    /\ UNCHANGED <<pipeVars, decayVars, aggVars, splitVars, featVars,
                  encVars, formVars, justVars, impVars, engVars>>

\* require_auth without a bearer header: 401 before any lookup
RequireAuthNoBearer ==
    /\ ses_pc = "serving"
    /\ lookup = <<>>
    /\ answer # <<[token |-> ForgedToken, ok |-> FALSE, session |-> <<>>,
                   at |-> clock, after_logout |-> FALSE]>>
    /\ answer' = <<[token |-> ForgedToken, ok |-> FALSE, session |-> <<>>,
                    at |-> clock, after_logout |-> FALSE]>>
    /\ UNCHANGED <<ses_pc, sessions, clock, issued, revoked, lookup>>
    /\ UNCHANGED <<pipeVars, decayVars, aggVars, splitVars, featVars,
                  encVars, formVars, justVars, impVars, engVars>>

\* require_auth -> get_session: the SELECT, on its own connection. Whether
\* a logout of the token had returned before the lookup began is noted.
GetSessionSelect ==
    /\ ses_pc = "serving"
    /\ lookup = <<>>
    /\ \E t \in Presentable :
          lookup' = <<[token |-> t, row |-> SelectSession(sessions, t),
                       after_logout |-> t \in revoked]>>
    /\ UNCHANGED <<ses_pc, sessions, clock, issued, revoked, answer>>
    /\ UNCHANGED <<pipeVars, decayVars, aggVars, splitVars, featVars,
                  encVars, formVars, justVars, impVars, engVars>>

\* get_session after the SELECT: no row, or an expired row (deleted), is
\* None and require_auth raises 401; otherwise the row is the session
GetSessionReturn ==
    /\ ses_pc = "serving"
    /\ lookup # <<>>
    /\ LET l == lookup[1]
       IN  IF l.row = <<>>
           THEN /\ answer' = <<[token |-> l.token, ok |-> FALSE,
                                session |-> <<>>, at |-> clock,
                                after_logout |-> l.after_logout]>>
                /\ UNCHANGED sessions
           ELSE IF Expired(l.row[1], clock)
           THEN /\ sessions' = DeleteSession(sessions, l.token)
                /\ answer' = <<[token |-> l.token, ok |-> FALSE,
                                session |-> <<>>, at |-> clock,
                                after_logout |-> l.after_logout]>>
           ELSE /\ answer' = <<[token |-> l.token, ok |-> TRUE,
                                session |-> l.row, at |-> clock,
                                after_logout |-> l.after_logout]>>
                /\ UNCHANGED sessions
    /\ lookup' = <<>>
    /\ UNCHANGED <<ses_pc, clock, issued, revoked>>
    /\ UNCHANGED <<pipeVars, decayVars, aggVars, splitVars, featVars,
                  encVars, formVars, justVars, impVars, engVars>>

\* time passes
Tick ==
    /\ ses_pc = "serving"
    /\ clock < MaxTicks * SESSION_TTL_HOURS
    /\ clock' = clock + SESSION_TTL_HOURS
    /\ UNCHANGED <<ses_pc, sessions, issued, revoked, lookup, answer>>
    /\ UNCHANGED <<pipeVars, decayVars, aggVars, splitVars, featVars,
                  encVars, formVars, justVars, impVars, engVars>>

NextSes ==
    \/ Login
    \/ Logout
    \/ RequireAuthNoBearer
    \/ GetSessionSelect
    \/ GetSessionReturn
    \/ Tick

SpecSes == InitSes /\ [][NextSes]_vars

\* an accepted token was issued by create_session, its lookup did not
\* begin after a logout of it, and its expires_at had not passed
AcceptedIsLive ==
    \A a \in Range(answer) :
        a.ok => /\ a.token \in 1..issued
                /\ ~a.after_logout
                /\ a.session # <<>>
                /\ a.session[1].token = a.token
                /\ a.session[1].expires_at >= a.at

\* a lookup that finds the row expired leaves no row of that token
ExpiredRowDeleted ==
    (/\ lookup # <<>>
     /\ lookup' = <<>>
     /\ lookup[1].row # <<>>
     /\ Expired(lookup[1].row[1], clock))
        => SelectSession(sessions', lookup[1].token) = <<>>

\* a logout removes rows of its own token only, and no step adds or
\* changes the row of a token already issued
OtherSessionsKept ==
    /\ \A t \in revoked' \ revoked :
          /\ SelectSession(sessions', t) = <<>>
          /\ \A r \in sessions : r.token # t => r \in sessions'
    /\ \A r \in sessions' : r.token \in 1..issued => r \in sessions

\* C30: in every interleaving of login, logout, lookups and the clock, an
\* accepted token was issued, not logged out before the lookup began and
\* not expired; the first lookup of an expired row deletes it; a logout
\* leaves the rows of every other token as they were.
C30_SessionSafety ==
    [][AcceptedIsLive' /\ ExpiredRowDeleted /\ OtherSessionsKept]_vars

\* token 1 was logged out, a lookup that began afterwards was rejected,
\* and the session of token 2 is still in the table
C30_Witness ==
    /\ answer # <<>>
    /\ answer[1].token = 1
    /\ answer[1].after_logout
    /\ ~answer[1].ok
    /\ SelectSession(sessions, 2) # <<>>

====
